---- MODULE Spec2Model ----
(***************************************************************************)
(* Model of the GPKG binary package container of lib/portage/gpkg.py:      *)
(* the build sequence of gpkg.compress, the on-disk container as a list    *)
(* of tar members, and gpkg._verify_binpkg with checksum_helper.           *)
(*                                                                         *)
(* Representation.  A file name is a sequence of string components, e.g.   *)
(* <<"pkg/", "image", ".tar", ".gz", ".sig">>; f + ".sig" is Append and    *)
(* f.endswith(".sig") looks at the last component.  A Manifest is a        *)
(* sequence of lines, a line the sequence of whitespace-separated fields   *)
(* that str.split() yields, a field again a sequence of components.  The   *)
(* content of a member is a record [t, v]: a blob, a Manifest text or a    *)
(* detached signature.  A hash function is idealised as collision-free:    *)
(* the hex digest of algorithm c over blob v is <<tag of c, v>>.           *)
(***************************************************************************)
EXTENDS Integers, Sequences, FiniteSets, TLC

VARIABLES
    create_signature,   \* gpkg.create_signature  ("binpkg-signing")
    request_signature,  \* gpkg.request_signature ("binpkg-request-signature")
    verify_signature,   \* gpkg.verify_signature  (not "binpkg-ignore-signature")
    compression,        \* gpkg.compression (BINPKG_COMPRESS)
    signing_key,        \* trust of the key BINPKG_GPG_SIGNING_COMMAND signs with
    checksums,          \* gpkg.checksums, the manifest records of the build
    file,               \* the container at gpkg_file: [magic, typeflag, members]
    libs,               \* iteration order of checksum_helper.libs in this process
    pc,                 \* position of the build (compress)
    tampers,            \* number of modifications made to the file at rest
    vres,               \* outcome of the last _verify_binpkg call
    root_dir,           \* the source tree handed to compress
    metadata,           \* the metadata sub-archive that compress wrote
    image,              \* the image sub-archive that compress wrote
    decompress_dir,     \* what decompress extracted
    tmp_gpkg_file,      \* the file at gpkg_file + "." + pid (update_metadata)
    update,             \* update_metadata: position, new metadata, old file
    metadata_bytes,     \* length in bytes of the stored metadata sub-archive
    url,                \* get_metadata_url: range requests, steps and outcome
    meta,               \* the metadata mapping handed to compress
    got,                \* get_metadata: what the local metadata read gave
    procs,              \* the external programs started (subprocess.Popen)
    threads,            \* the threads started (threading.Thread)
    stream,             \* the tar_stream_writer or tar_stream_reader in use
    helper,             \* the checksum_helper in use
    job,                \* the operation under way: calls to come, exception
    swaps,              \* number of exchanges made in the file at rest
    pipe,               \* the bytes of a stream: pipes, file, checksum sink
    inner,              \* what the last read of a sub-archive found and ran
    instances           \* number of gpkg objects made over the file so far

vars == <<create_signature, request_signature, verify_signature, compression,
          signing_key, libs, checksums, file, pc, tampers, vres,
          root_dir, metadata, image, decompress_dir, tmp_gpkg_file, update,
          metadata_bytes, url, meta, got, procs, threads, stream, helper, job,
          swaps, pipe, inner, instances>>

\* the state of the operations on a source tree
Tree == <<root_dir, metadata, image, decompress_dir>>

\* the state of update_metadata
Rest == <<tmp_gpkg_file, update>>

\* the state of get_metadata_url
Remote == <<metadata_bytes, url, meta, got>>

Other == <<Tree, Rest, Remote>>

\* the external programs, threads and stream objects of an operation
Streams == <<procs, threads, stream, helper, job>>

\* the state of a later gpkg object over the same file
Reading == <<inner, instances>>

----------------------------------------------------------------------------
(* Bounds *)

\* entries of a source tree
MaxEntries == 3

MaxTampers == 1

\* exchanges of two neighbouring entries or Manifest lines in a container
\* at rest
MaxSwaps == 2

----------------------------------------------------------------------------
(* Names *)

SIG == ".sig"
gpkg_version == <<"gpkg-1">>
ManifestName == <<"Manifest">>
ManifestSigName == <<"Manifest", SIG>>
base_name == "pkg/"
DirParts == {"pkg/", "alt/"}

ext_list(c) == CASE c = "gzip" -> <<".gz">>
                 [] c = "xz" -> <<".xz">>
                 [] OTHER -> <<>>

EndsWithSig(f) == Len(f) > 0 /\ f[Len(f)] = SIG

RECURSIVE basename(_)
basename(f) == IF Len(f) > 0 /\ f[1] \in DirParts THEN basename(Tail(f)) ELSE f

\* a test that takes every base name for the image's
StartsWithImage_any(f) == Len(f) > 0

StartsWithImage(f) == Len(f) > 0 /\ f[1] \in {"image", "imagex"}

_create_tarinfo_name(comp, file_name) ==
    <<base_name, file_name, ".tar">> \o ext_list(comp)

----------------------------------------------------------------------------
(* Python list helpers *)

SeqToSet(s) == {s[i] : i \in 1..Len(s)}

In(x, s) == \E i \in 1..Len(s) : s[i] = x

\* list.index(x): first position of x, 0 when absent (Python raises ValueError)
Index(s, x) == IF In(x, s) THEN CHOOSE i \in 1..Len(s) :
                                   s[i] = x /\ \A j \in 1..(i - 1) : s[j] # x
               ELSE 0

\* list.remove(x): removes the first occurrence
Remove(s, x) == LET i == Index(s, x)
                IN  IF i = 0 THEN s
                    ELSE SubSeq(s, 1, i - 1) \o SubSeq(s, i + 1, Len(s))

RemoveAt(s, i) == SubSeq(s, 1, i - 1) \o SubSeq(s, i + 1, Len(s))

ReplaceAt(s, i, x) == [s EXCEPT ![i] = x]

Names(members) == [i \in 1..Len(members) |-> members[i].name]

\* TarFile.getmember(name): the last member of that name
getmember(members, f) ==
    members[CHOOSE i \in 1..Len(members) :
                members[i].name = f /\ \A j \in (i + 1)..Len(members) : members[j].name # f]

----------------------------------------------------------------------------
(* Numbers in Manifest fields: str(size) and int(field) *)

NumText == [n \in 0..3 |-> CASE n = 0 -> "0" [] n = 1 -> "1" [] n = 2 -> "2" [] OTHER -> "3"]
str(n) == <<NumText[n]>>

\* int() accepts more than one spelling of a number
IntTable == [s \in {"0", "1", "2", "3", "01", "02"} |->
                CASE s = "0" -> 0 [] s = "1" -> 1 [] s = "2" -> 2 [] s = "3" -> 3
                  [] s = "01" -> 1 [] OTHER -> 2]
IsInt(tok) == Len(tok) = 1 /\ tok[1] \in DOMAIN IntTable
int(tok) == IntTable[tok[1]]

----------------------------------------------------------------------------
(* Digests *)

MANIFEST2_HASH_DEFAULTS == {"BLAKE2B", "SHA512"}

HexTag(c) == IF c = "BLAKE2B" THEN "b2" ELSE "s5"

\* a digest that does not depend on the bytes
hexdigest_blind(c, data) == <<HexTag(c), "d0">>

\* hashlib hexdigest() of algorithm c over a blob
hexdigest(c, data) == <<HexTag(c), data.v>>

\* str.lower() on a field
LowerStr(s) == CASE s = "B2" -> "b2" [] s = "S5" -> "s5" [] OTHER -> s
lower(tok) == [i \in 1..Len(tok) |-> LowerStr(tok[i])]

\* the orders in which a dict built from the frozenset may be iterated
LibsOrders == {<<"BLAKE2B", "SHA512">>, <<"SHA512", "BLAKE2B">>}

----------------------------------------------------------------------------
(* Contents *)

Blob(v) == [t |-> "blob", v |-> v]
Text(lines) == [t |-> "text", v |-> lines]
Signature(data, key) == [t |-> "sig", v |-> [signed |-> data, key |-> key]]

SameData(a, b) == a.t = b.t /\ a.v = b.v

----------------------------------------------------------------------------
(* The external verify command (BINPKG_GPG_VERIFY_COMMAND): exit status    *)
(* and status-fd output of gpg --verify for a detached signature and the   *)
(* data read on stdin.  The key of a signature stands for the state of     *)
(* that key in the verifier's keyring; "junk" is a signature member whose  *)
(* bytes are not a signature.                                              *)

EX_OK == 0
GNUPG == "[GNUPG:]"
SigKeys == {"ultimate", "fully", "marginal", "expired", "nopubkey", "mixed",
            "junk"}

gpg_verify(signature, data) ==
    IF signature.t # "sig" \/ signature.v.key = "junk"
    THEN [rc |-> 2, status |-> << <<GNUPG, "NODATA">> >>]
    ELSE IF signature.v.key = "nopubkey"
    THEN [rc |-> 2, status |-> << <<GNUPG, "ERRSIG">>, <<GNUPG, "NO_PUBKEY">> >>]
    ELSE IF ~SameData(signature.v.signed, data)
    THEN [rc |-> 1, status |-> << <<GNUPG, "BADSIG", "key">> >>]
    ELSE CASE signature.v.key = "ultimate" ->
                [rc |-> 0, status |-> << <<GNUPG, "GOODSIG", "key">>,
                                         <<GNUPG, "TRUST_ULTIMATE">> >>]
           [] signature.v.key = "fully" ->
                [rc |-> 0, status |-> << <<GNUPG, "GOODSIG", "key">>,
                                         <<GNUPG, "VALIDSIG">>,
                                         <<GNUPG, "TRUST_FULLY", "0", "pgp">> >>]
           [] signature.v.key = "marginal" ->
                [rc |-> 0, status |-> << <<GNUPG, "GOODSIG", "key">>,
                                         <<GNUPG, "TRUST_MARGINAL">> >>]
           [] signature.v.key = "expired" ->
                [rc |-> 0, status |-> << <<GNUPG, "EXPKEYSIG", "key">>,
                                         <<GNUPG, "TRUST_ULTIMATE">> >>]
           [] OTHER ->
                \* a good signature followed by a second, bad one
                [rc |-> 1, status |-> << <<GNUPG, "GOODSIG", "key">>,
                                         <<GNUPG, "TRUST_ULTIMATE">>,
                                         <<GNUPG, "BADSIG", "key">> >>]

----------------------------------------------------------------------------
(* checksum_helper *)

SIGNING == 0
VERIFY == 1

\* str.startswith on a status line
startswith(l, prefix) ==
    Len(l) >= Len(prefix) /\ SubSeq(l, 1, Len(prefix)) = prefix

\* the status check without the trust requirement
_check_gpg_status_untrusted(gpg_status) ==
    \E i \in 1..Len(gpg_status) : startswith(gpg_status[i], <<GNUPG, "GOODSIG">>)

\* TRUE iff _check_gpg_status returns without raising InvalidSignature
_check_gpg_status(gpg_status) ==
    LET good_signature ==
            \E i \in 1..Len(gpg_status) :
                startswith(gpg_status[i], <<GNUPG, "GOODSIG">>)
        trust_signature ==
            \E i \in 1..Len(gpg_status) :
                \/ startswith(gpg_status[i], <<GNUPG, "TRUST_ULTIMATE">>)
                \/ startswith(gpg_status[i], <<GNUPG, "TRUST_FULLY">>)
    IN  ~((~good_signature) \/ (~trust_signature))

\* checksum_helper.finish() with a gpg process: the exception raised, or "ok"
finish(gpg_operation, return_code, gpg_output) ==
    IF return_code = EX_OK
    THEN IF gpg_operation = VERIFY
         THEN IF _check_gpg_status(gpg_output) THEN "ok" ELSE "InvalidSignature"
         ELSE "ok"
    ELSE IF gpg_operation = SIGNING THEN "GPGException"
         ELSE "InvalidSignature"

----------------------------------------------------------------------------
(* Manifest *)

MANIFEST == <<"MANIFEST">>

\* one record of gpkg._record_checksum
_record_checksum_record(name, size, data, order) ==
    <<MANIFEST, name, str(size)>>
        \o <<<<order[1]>>, hexdigest(order[1], data)>>
        \o <<<<order[2]>>, hexdigest(order[2], data)>>

RECURSIVE _load_manifest_from(_, _, _)
_load_manifest_from(lines, manifest, manifest_filenames) ==
    IF lines = <<>> THEN [exc |-> "ok", msg |-> "", manifest |-> manifest]
    ELSE LET manifest_record == Head(lines)
         IN  IF manifest_record = <<>>
             THEN _load_manifest_from(Tail(lines), manifest, manifest_filenames)
             ELSE IF manifest_record[1] # MANIFEST
             THEN [exc |-> "DigestException", msg |-> "invalied Manifest",
                   manifest |-> manifest]
             ELSE IF Len(manifest_record) < 2
             THEN [exc |-> "IndexError", msg |-> "", manifest |-> manifest]
             ELSE IF In(manifest_record[2], manifest_filenames)
             THEN [exc |-> "DigestException",
                   msg |-> "Manifest duplicate file exists", manifest |-> manifest]
             ELSE IF Len(manifest_record) < 3
             THEN [exc |-> "IndexError", msg |-> "", manifest |-> manifest]
             ELSE IF ~IsInt(manifest_record[3])
             THEN [exc |-> "DigestException",
                   msg |-> "Manifest invalied file size", manifest |-> manifest]
             ELSE _load_manifest_from(Tail(lines),
                      Append(manifest, manifest_record),
                      Append(manifest_filenames, manifest_record[2]))

\* a loader that passes over the lines it cannot take
_load_manifest_lenient(manifest_data) ==
    [exc |-> "ok", msg |-> "",
     manifest |-> SelectSeq(manifest_data.v,
                            LAMBDA l : /\ Len(l) >= 3 /\ l[1] = MANIFEST
                                       /\ IsInt(l[3]))]

_load_manifest(manifest_data) == _load_manifest_from(manifest_data.v, <<>>, <<>>)

----------------------------------------------------------------------------
(* gpkg._verify_binpkg *)

NoFile == [magic |-> "absent", typeflag |-> "0", members |-> <<>>]

\* a format check that takes any header for a tar header
_get_tar_format_any(f) == "USTAR_FORMAT"

\* _get_tar_format: magic at 0x101 and typeflag at 0x9c of the first header
_get_tar_format(f) ==
    IF f.magic = "ustar  \\0" THEN "GNU_FORMAT"
    ELSE IF f.magic = "ustar\\000"
         THEN IF f.typeflag = "x" \/ f.typeflag = "g" THEN "PAX_FORMAT"
              ELSE "USTAR_FORMAT"
         ELSE "None"

\* the condition without the automatic use of signatures
verify_condition_request(request, signature_exist, verify) ==
    request /\ verify

\* the ignore flag overriding the request flag only
verify_condition_observed(request, signature_exist, verify) ==
    signature_exist \/ (request /\ verify)

\* the condition without the ignore flag
verify_condition_always(request, signature_exist, verify) ==
    request \/ signature_exist

\* "if ((self.request_signature or signature_exist) and self.verify_signature)"
verify_condition(request, signature_exist, verify) ==
    (request \/ signature_exist) /\ verify

\* what a run of _verify_binpkg has done so far: Manifest loaded, members
\* that reached the signature test, signature verifications started,
\* members hashed, results of the verify command
NoTrace == [loaded |-> FALSE, reached |-> <<>>, started |-> <<>>,
            hashed |-> <<>>, gpg |-> <<>>]

\* an exception leaving _verify_binpkg ("ok": it returns); at is the member
\* the loop was working on
RaiseAt(exc, msg, tr, f) == [exc |-> exc, msg |-> msg, tr |-> tr, at |-> f]
Raise(exc, msg, tr) == RaiseAt(exc, msg, tr, <<>>)

\* the loop "for c in checksum_info.libs" over one manifest record
RECURSIVE VerifyHashes(_, _, _, _)
VerifyHashes(algos, manifest_record, data, verified_hash_count) ==
    IF algos = <<>>
    THEN IF verified_hash_count < 1
         THEN [exc |-> "DigestException", msg |-> "no supported checksum found"]
         ELSE [exc |-> "ok", msg |-> ""]
    ELSE LET c == Head(algos)
             i == Index(manifest_record, <<c>>)
         IN  IF i = 0
             THEN \* list.index raises ValueError, which "except KeyError" lets through
                  [exc |-> "ValueError", msg |-> "is not in list"]
             ELSE IF i + 1 > Len(manifest_record)
             THEN [exc |-> "IndexError", msg |-> "list index out of range"]
             ELSE IF lower(hexdigest(c, data)) = lower(manifest_record[i + 1])
             THEN VerifyHashes(Tail(algos), manifest_record, data,
                               verified_hash_count + 1)
             ELSE [exc |-> "DigestException", msg |-> "checksum mismatched"]

\* the unverified_manifest after "for m in unverified_manifest: if m[1] == name"
RemoveRecordOf(unverified_manifest, name) ==
    IF \E i \in 1..Len(unverified_manifest) : unverified_manifest[i][2] = name
    THEN RemoveAt(unverified_manifest,
                  CHOOSE i \in 1..Len(unverified_manifest) :
                      /\ unverified_manifest[i][2] = name
                      /\ \A j \in 1..(i - 1) : unverified_manifest[j][2] # name)
    ELSE unverified_manifest

\* a lookup by the place of the record: the first record for the metadata
\* entry, the last for any other
FindRecord_by_position(manifest, f) ==
    IF manifest = <<>> THEN <<>>
    ELSE IF In("metadata", basename(f)) THEN manifest[1]
    ELSE manifest[Len(manifest)]

\* manifest_record after "for m in manifest: if m[1] == f"
FindRecord(manifest, f) ==
    IF \E i \in 1..Len(manifest) : manifest[i][2] = f
    THEN manifest[CHOOSE i \in 1..Len(manifest) :
                      /\ manifest[i][2] = f
                      /\ \A j \in (i + 1)..Len(manifest) : manifest[j][2] # f]
    ELSE <<>>

\* the checks after the loop without the test for "Missing files"
Reconcile_unchecked(unverified_files, unverified_manifest, tr) ==
    IF Len(unverified_files) # 0
    THEN Raise("DigestException", "Unknown files exists", tr)
    ELSE Raise("ok", "", tr)

\* the checks after the loop without the test for "Unknown files exists"
Reconcile_lenient(unverified_files, unverified_manifest, tr) ==
    IF Len(unverified_manifest) # 0
    THEN Raise("DigestException", "Missing files", tr)
    ELSE Raise("ok", "", tr)

\* the two checks after the loop
Reconcile(unverified_files, unverified_manifest, tr) ==
    IF Len(unverified_manifest) # 0
    THEN Raise("DigestException", "Missing files", tr)
    ELSE IF Len(unverified_files) # 0
    THEN Raise("DigestException", "Unknown files exists", tr)
    ELSE Raise("ok", "", tr)

\* the loop "for f in unverified_files.copy()"
RECURSIVE VerifyFiles(_, _, _, _, _)
VerifyFiles(todo, unverified_files, unverified_manifest, tr, cx) ==
    IF todo = <<>>
    THEN Reconcile(unverified_files, unverified_manifest, tr)
    ELSE
    LET f == Head(todo)
        f_signature == Append(f, SIG)
        manifest_record == FindRecord(cx.manifest, f)
    IN  IF EndsWithSig(f)
        THEN VerifyFiles(Tail(todo), unverified_files, unverified_manifest, tr, cx)
        ELSE IF manifest_record = <<>>
        THEN RaiseAt("DigestException", "checksum not found", tr, f)
        ELSE IF int(manifest_record[3]) # getmember(cx.members, f).size
        THEN RaiseAt("DigestException", "file size mismatched", tr, f)
        ELSE IF StartsWithImage(basename(f)) /\ cx.metadata_only
        THEN VerifyFiles(Tail(todo),
                 Remove(Remove(unverified_files, f), f_signature),
                 IF In(f_signature, Remove(unverified_files, f))
                 THEN RemoveRecordOf(Remove(unverified_manifest, manifest_record),
                                     f_signature)
                 ELSE Remove(unverified_manifest, manifest_record),
                 tr, cx)
        ELSE IF cx.check_signature /\ ~In(f_signature, unverified_files)
        THEN RaiseAt("MissingSignature", "signature not found",
                     [tr EXCEPT !.reached = Append(@, f)], f)
        ELSE
        LET data == getmember(cx.members, f).data
            run == IF cx.check_signature
                   THEN gpg_verify(getmember(cx.members, f_signature).data, data)
                   ELSE [rc |-> EX_OK, status |-> <<>>]
            fin == IF cx.check_signature THEN finish(VERIFY, run.rc, run.status)
                   ELSE "ok"
            tr2 == [tr EXCEPT
                      !.reached = Append(@, f),
                      !.started = IF cx.check_signature THEN Append(@, f) ELSE @,
                      !.hashed = Append(@, f),
                      !.gpg = IF cx.check_signature
                              THEN Append(@, [subject |-> f, rc |-> run.rc,
                                              status |-> run.status,
                                              accepted |-> fin = "ok"])
                              ELSE @]
            hashes == VerifyHashes(cx.libs, manifest_record, data, 0)
        IN  IF fin # "ok" THEN RaiseAt(fin, "GPG verify failed", tr2, f)
            ELSE IF hashes.exc # "ok" THEN RaiseAt(hashes.exc, hashes.msg, tr2, f)
            ELSE VerifyFiles(Tail(todo),
                     Remove(Remove(unverified_files, f), f_signature),
                     IF In(f_signature, Remove(unverified_files, f))
                     THEN RemoveRecordOf(Remove(unverified_manifest, manifest_record),
                                         f_signature)
                     ELSE Remove(unverified_manifest, manifest_record),
                     tr2, cx)

\* the part of _verify_binpkg from "Load manifest" on
VerifyManifest(f, unverified_files, manifest_data, tr, check, metadata_only, algos) ==
    LET loaded == _load_manifest(manifest_data)
        tr2 == [tr EXCEPT !.loaded = TRUE]
    IN  IF loaded.exc # "ok" THEN Raise(loaded.exc, loaded.msg, tr2)
        ELSE VerifyFiles(unverified_files, unverified_files, loaded.manifest, tr2,
                 [members |-> f.members, manifest |-> loaded.manifest,
                  check_signature |-> check,
                  metadata_only |-> metadata_only, libs |-> algos])

\* _verify_binpkg on the file f for an instance with the given flags. algos is
\* the iteration order of checksum_helper.libs.
_verify_binpkg(f, request, verify, metadata_only, algos) ==
    LET container_files == Names(f.members)
        signature_exist == \E i \in 1..Len(container_files) :
                               EndsWithSig(container_files[i])
        check_signature == verify_condition(request, signature_exist, verify)
        unverified_files == Remove(container_files, gpkg_version)
    IN  IF f.magic = "absent"
        THEN Raise("FileNotFound", "", NoTrace)
        ELSE IF _get_tar_format(f) = "None"
        THEN Raise("InvalidBinaryPackageFormat", "Cannot identify tar format",
                   NoTrace)
        ELSE IF ~In(gpkg_version, container_files)
        THEN Raise("InvalidBinaryPackageFormat", "Invalid gpkg file.", NoTrace)
        ELSE IF \E i, j \in 1..Len(container_files) :
                    i < j /\ container_files[i] = container_files[j]
        THEN Raise("InvalidBinaryPackageFormat", "Duplicate file exist", NoTrace)
        ELSE IF ~In(ManifestName, unverified_files)
        THEN Raise("MissingSignature", "Manifest not found", NoTrace)
        ELSE
        LET manifest_data == getmember(f.members, ManifestName).data
        IN  IF check_signature
            THEN IF In(ManifestSigName, unverified_files)
                 THEN LET run == gpg_verify(
                                     getmember(f.members, ManifestSigName).data,
                                     manifest_data)
                          fin == finish(VERIFY, run.rc, run.status)
                          tr == [NoTrace EXCEPT
                                   !.started = <<ManifestName>>,
                                   !.gpg = <<[subject |-> ManifestName,
                                              rc |-> run.rc,
                                              status |-> run.status,
                                              accepted |-> fin = "ok"]>>]
                      IN  IF fin # "ok" THEN Raise(fin, "GPG verify failed", tr)
                          ELSE VerifyManifest(f,
                                   Remove(Remove(unverified_files, ManifestName),
                                          ManifestSigName),
                                   manifest_data, tr, check_signature,
                                   metadata_only, algos)
                 ELSE Raise("MissingSignature", "Manifest signature not found",
                            NoTrace)
            ELSE VerifyManifest(f,
                     Remove(Remove(unverified_files, ManifestName),
                            ManifestSigName),
                     manifest_data, NoTrace, check_signature, metadata_only, algos)

----------------------------------------------------------------------------
(* The gpkg instance and the build of a container *)

Compressions == {"none", "gzip"}
SigningKeys == {"ultimate", "marginal"}
Blobs == {"d0", "d1"}

NoResult == [exc |-> "none", msg |-> "", tr |-> NoTrace, at |-> <<>>,
             metadata_only |-> FALSE]

Member(name, size, data) == [name |-> name, size |-> size, data |-> data]

\* no tree, no image written, nothing extracted
NoTree == {}
NoImage == [exc |-> "none", comp |-> "none", tar_format |-> "None",
            header |-> "None", members |-> <<>>]
NotExtracted == [done |-> FALSE, tree |-> NoTree]

\* get_metadata_url was not called
WantAll == [kind |-> "None", names |-> <<>>]

NoFetch == [exc |-> "none", metadata |-> "none", requests |-> <<>>,
            steps |-> <<>>, want |-> WantAll, returned |-> <<>>]

\* get_metadata was not called
NoMetadata == [exc |-> "none", want |-> WantAll, returned |-> <<>>]

\* {'meta': 'test'}, the metadata of the builds of tests/gpkg
DefaultMeta == << [name |-> "meta", kind |-> "str", data |-> "test"] >>

\* update_metadata was not called
NoUpdate == [pc |-> "idle", metadata |-> "none", container_old |-> NoFile]

\* no tar_stream_writer or tar_stream_reader was made
NoStream == [kind |-> "none", entry |-> "", p |-> 0, t |-> 0,
             killed |-> FALSE, closed |-> FALSE, header |-> "none",
             appended |-> FALSE]

\* no checksum_helper was made
NoHelper == [gpg_operation |-> "None", p |-> 0, finished |-> FALSE,
             entry |-> "", returned |-> FALSE]

\* no tar_stream_writer or tar_stream_reader moves bytes
NoPipe == [kind |-> "none"]

\* no sub-archive was looked for
NoInner == [op |-> "none", file_name |-> "", exc |-> "none", f |-> 0,
            f_comp |-> "None", cmd |-> "None", warned |-> FALSE]

\* no operation is under way
NoJob == [op |-> "none", calls |-> <<>>, exc |-> "none", call |-> "none",
          raised |-> "none", waiting |-> "none"]

\* gpkg.__init__
InitInstance ==
    /\ procs = <<>> /\ threads = <<>>
    /\ stream = NoStream /\ helper = NoHelper /\ job = NoJob
    /\ swaps = 0
    /\ pipe = NoPipe /\ inner = NoInner /\ instances = 1
    /\ metadata = NoImage /\ image = NoImage
    /\ decompress_dir = NotExtracted
    /\ tmp_gpkg_file = NoFile /\ update = NoUpdate
    /\ url = NoFetch /\ got = NoMetadata
    /\ create_signature \in BOOLEAN
    /\ request_signature \in BOOLEAN
    /\ verify_signature \in BOOLEAN
    /\ compression \in Compressions
    /\ signing_key \in (IF create_signature THEN SigningKeys ELSE {"none"})
    /\ libs \in LibsOrders
    /\ checksums = <<>>
    /\ file = NoFile
    /\ pc = "Init"
    /\ tampers = 0
    /\ vres = NoResult

\* an instance whose build is followed member by member
Init ==
    InitInstance /\ root_dir = NoTree /\ metadata_bytes = 512 /\ meta = DefaultMeta

Settings == <<create_signature, request_signature, verify_signature,
              compression, signing_key, libs>>

\* tarfile magic written for a container format
Magic(tar_format) == IF tar_format = "GNU_FORMAT" THEN "ustar  \\0"
                     ELSE "ustar\\000"

\* compress: open the container and add the gpkg version member
WriteVersion ==
    /\ pc = "Init"
    /\ file' = [magic |-> Magic("USTAR_FORMAT"), typeflag |-> "0",
                members |-> <<Member(gpkg_version, 0, Blob("empty"))>>]
    /\ pc' = "WriteVersion"
    /\ UNCHANGED <<Settings, Streams, pipe, Reading, swaps, Other, checksums, tampers, vres>>

\* gpkg._record_checksum
_record_checksum(cs, name, size, data) ==
    Append(IF \E i \in 1..Len(cs) : cs[i][2] = name
           THEN RemoveRecordOf(cs, name) ELSE cs,
           _record_checksum_record(name, size, data, libs))

\* the stored (compressed) bytes of the two sub-archives and their lengths
Stored(file_name) == IF file_name = "metadata" THEN Blob("d0") ELSE Blob("d1")
StoredSize(file_name) == IF file_name = "metadata" THEN 1 ELSE 2

\* a build that writes the signature before its sub-archive
AddArchive_signature_first(file_name, from, to) ==
    /\ pc = from
    /\ LET name == _create_tarinfo_name(compression, file_name)
           data == Stored(file_name)
           size == StoredSize(file_name)
           entry == Member(name, size, data)
           signature == Member(Append(name, SIG), 1, Signature(data, signing_key))
       IN  /\ file' = [file EXCEPT !.members =
                         IF create_signature THEN @ \o <<signature, entry>>
                         ELSE Append(@, entry)]
           /\ checksums' = _record_checksum(checksums, name, size, data)
    /\ pc' = to
    /\ UNCHANGED <<Settings, Streams, pipe, Reading, swaps, Other, tampers, vres>>

\* tar_stream_writer + _record_checksum + _add_signature for one sub-archive
AddArchive(file_name, from, to) ==
    /\ pc = from
    /\ LET name == _create_tarinfo_name(compression, file_name)
           data == Stored(file_name)
           size == StoredSize(file_name)
           entry == Member(name, size, data)
           signature == Member(Append(name, SIG), 1, Signature(data, signing_key))
       IN  /\ file' = [file EXCEPT !.members =
                         IF create_signature THEN @ \o <<entry, signature>>
                         ELSE Append(@, entry)]
           /\ checksums' = _record_checksum(checksums, name, size, data)
    /\ pc' = to
    /\ UNCHANGED <<Settings, Streams, pipe, Reading, swaps, Other, tampers, vres>>

\* gpkg._add_metadata
AddMetadata == AddArchive("metadata", "WriteVersion", "WriteMetadata")

\* compress: the image sub-archive
WriteImage == AddArchive("image", "WriteMetadata", "WriteImage")

NextArchive == IF pc = "WriteVersion" THEN "metadata" ELSE "image"

\* the external compressor exits with failure: tar_stream_writer.close raises
\* before the header is patched, the file keeps the header written without size
CompressorFails ==
    /\ pc \in {"WriteVersion", "WriteMetadata"}
    /\ compression # "none"
    /\ file' = [file EXCEPT !.members =
                  Append(@, Member(_create_tarinfo_name(compression, NextArchive),
                                   0, Blob("empty")))]
    /\ pc' = "Failed"
    /\ UNCHANGED <<Settings, Streams, pipe, Reading, swaps, Other, checksums, tampers, vres>>

\* the signing command exits with failure: checksum_helper.finish raises
\* GPGException after the member has been written
SigningFails ==
    /\ pc \in {"WriteVersion", "WriteMetadata", "WriteImage"}
    /\ create_signature
    /\ \E return_code \in {1, 2} :
        finish(SIGNING, return_code, <<>>) = "GPGException"
    /\ file' = [file EXCEPT !.members =
                  Append(@, IF pc = "WriteImage"
                            THEN Member(ManifestName, Len(checksums),
                                        Text(checksums))
                            ELSE Member(_create_tarinfo_name(compression,
                                                             NextArchive),
                                        StoredSize(NextArchive),
                                        Stored(NextArchive)))]
    /\ pc' = "Failed"
    /\ UNCHANGED <<Settings, Streams, pipe, Reading, swaps, Other, checksums, tampers, vres>>

\* compress is left by any other exception (an I/O error) between two steps:
\* the members written so far stay in the file
BuildAborts ==
    /\ pc \in {"WriteVersion", "WriteMetadata", "WriteImage"}
    /\ pc' = "Failed"
    /\ UNCHANGED <<Settings, Streams, pipe, Reading, swaps, Other, checksums, file, tampers, vres>>

\* gpkg._add_manifest
AddManifest ==
    /\ pc = "WriteImage"
    /\ LET manifest == Text(checksums)
           entry == Member(ManifestName, Len(checksums), manifest)
           signature == Member(ManifestSigName, 1, Signature(manifest, signing_key))
       IN  file' = [file EXCEPT !.members =
                      IF create_signature THEN @ \o <<entry, signature>>
                      ELSE Append(@, entry)]
    /\ pc' = "WriteManifest"
    /\ UNCHANGED <<Settings, Streams, pipe, Reading, swaps, Other, checksums, tampers, vres>>

\* compress: container.close()
ContainerClose ==
    /\ pc = "WriteManifest"
    /\ pc' = "Sealed"
    /\ UNCHANGED <<Settings, Streams, pipe, Reading, swaps, Other, checksums, file, tampers, vres>>

----------------------------------------------------------------------------
(* Source trees and the image sub-archive.  Sizes are counted in units of  *)
(* 100,000,000 bytes; a size of 0 stands for a file smaller than that.      *)

\* 8000000000 bytes, the threshold of _get_tar_format_from_stats
HugeSize == 80
\* the largest size an 11 digit octal field holds is 8589934591 bytes
OctalLimit == 85

\* path components and their lengths in bytes of the filesystem encoding
ComponentBytes ==
    [c \in {".", "a", "b", "s", "é", "M99", "M100", "M101", "L150"} |->
        CASE c = "M99" -> 99 [] c = "M100" -> 100 [] c = "M101" -> 101
          [] c = "L150" -> 150 [] c = "é" -> 2
          [] OTHER -> 1]

\* len() of a path joined with "/"
RECURSIVE PathBytes(_)
PathBytes(path) ==
    IF path = <<>> THEN 0
    ELSE ComponentBytes[Head(path)] + (IF Len(path) > 1 THEN 1 ELSE 0)
            + PathBytes(Tail(path))

\* symlink targets and their lengths
TargetBytes == [t \in {"", "a", "T150"} |->
                   CASE t = "" -> 0 [] t = "a" -> 1 [] OTHER -> 150]

File(path, size, data, ino) ==
    [path |-> path, type |-> "file", size |-> size, data |-> data,
     ino |-> ino, target |-> ""]
Dir(path) ==
    [path |-> path, type |-> "dir", size |-> 0, data |-> "", ino |-> 0,
     target |-> ""]
Symlink(path, target) ==
    [path |-> path, type |-> "symlink", size |-> 0, data |-> "", ino |-> 0,
     target |-> target]

\* the directory entries a source tree is made of
Pool ==
    {File(<<"a">>, z, "p", 1) : z \in {0, 40, 79, 80, 86}}
        \cup {File(<<"b">>, z, "q", 2) : z \in {0, 40}}
        \cup {File(<<"b">>, z, "p", 1) : z \in {0, 40}}
        \cup {File(<<"é">>, 0, "q", 3), File(<<"L150">>, 0, "q", 4),
              Dir(<<"M99">>), File(<<"M99", "M99">>, 0, "q", 5),
              File(<<"M99", "M100">>, 0, "q", 7),
              File(<<"M99", "M101">>, 0, "q", 8),
              Dir(<<"L150">>), File(<<"L150", "L150">>, 0, "q", 6),
              Symlink(<<"s">>, "a"), Symlink(<<"s">>, "T150")}

RECURSIVE TreesUpTo(_)
TreesUpTo(k) ==
    IF k = 0 THEN {{}}
    ELSE LET T == TreesUpTo(k - 1) IN T \cup {t \cup {e} : t \in T, e \in Pool}

\* one entry per path, parents are directories, links to one inode agree
ValidTree(t) ==
    \A e \in t :
        /\ \A o \in t : o.path = e.path => o = e
        /\ Len(e.path) > 1 => Dir(SubSeq(e.path, 1, Len(e.path) - 1)) \in t
        /\ e.type = "file" =>
              \A o \in t : (o.type = "file" /\ o.ino = e.ino)
                              => (o.size = e.size /\ o.data = e.data)

Trees == {t \in TreesUpTo(MaxEntries) : ValidTree(t)}

\* the order in which tarfile.add and os.walk meet the paths (sorted names,
\* a directory before what it holds)
PathsOrder ==
    << <<"L150">>, <<"L150", "L150">>, <<"M99">>, <<"M99", "M100">>,
       <<"M99", "M101">>, <<"M99", "M99">>,
       <<"a">>, <<"b">>, <<"s">>, <<"é">> >>

EntryAt(t, path) == CHOOSE e \in t : e.path = path
HasPath(t, path) == \E e \in t : e.path = path

Max(S) == IF S = {} THEN 0 ELSE CHOOSE x \in S : \A y \in S : y <= x

RECURSIVE Sum(_)
Sum(sizes) == IF sizes = <<>> THEN 0 ELSE Head(sizes) + Sum(Tail(sizes))

\* os.path.getsize of a name that os.walk lists among the files: a symlink
\* is followed, -1 stands for FileNotFoundError on a dangling symlink
getsize(t, e) ==
    IF e.type = "file" THEN e.size
    ELSE IF HasPath(t, <<e.target>>) /\ EntryAt(t, <<e.target>>).type = "file"
         THEN EntryAt(t, <<e.target>>).size
         ELSE -1

\* gpkg._check_pre_image_files
_check_pre_image_files(t) ==
    LET listed == SelectSeq(PathsOrder,
                      LAMBDA path : HasPath(t, path)
                                       /\ EntryAt(t, path).type # "dir")
        sizes == [i \in 1..Len(listed) |->
                     Max({getsize(t, EntryAt(t, listed[i])), 0})]
    IN  [image_max_path_length |-> Max({PathBytes(e.path) : e \in t}),
         image_max_file_size |-> Max({sizes[i] : i \in 1..Len(sizes)}),
         image_total_size |-> Sum(sizes)]

\* a format choice that looks at the size only
_get_tar_format_from_stats_by_size(image_max_path_length, image_max_file_size, image_total_size) ==
    [container_tar_format |->
        IF image_total_size < HugeSize THEN "USTAR_FORMAT" ELSE "GNU_FORMAT",
     image_tar_format |->
        IF image_max_file_size < HugeSize THEN "USTAR_FORMAT" ELSE "GNU_FORMAT"]

\* gpkg._get_tar_format_from_stats
_get_tar_format_from_stats(image_max_path_length, image_max_file_size, image_total_size) ==
    [container_tar_format |->
        IF image_total_size < HugeSize THEN "USTAR_FORMAT" ELSE "GNU_FORMAT",
     image_tar_format |->
        IF image_max_path_length > 200 THEN "GNU_FORMAT"
        ELSE IF image_max_file_size < HugeSize THEN "USTAR_FORMAT"
        ELSE "GNU_FORMAT"]

\* the member name tarfile.add(root_dir, ".") gives a path
arcname(path) == <<".">> \o path

NameBytes(name, type) == PathBytes(name) + (IF type = "DIRTYPE" THEN 1 ELSE 0)

\* tarfile's ustar header: a name longer than 100 bytes is split at a "/"
\* into a prefix of at most 155 and a name of at most 100 bytes
posix_splits(name, type) ==
    {i \in 1..(Len(name) - 1) :
        /\ PathBytes(SubSeq(name, 1, i)) <= 155
        /\ NameBytes(SubSeq(name, i + 1, Len(name)), type) <= 100}

\* TarInfo.tobuf: the header fields of a member, or the ValueError raised
tobuf(tar_format, m) ==
    IF tar_format = "GNU_FORMAT"
    THEN [exc |-> "ok", member |-> m]
    ELSE IF Max({TargetBytes[m.linkname], PathBytes(m.linkpath)}) > 100
    THEN [exc |-> "ValueError", member |-> m]
    ELSE IF NameBytes(m.name, m.type) <= 100
    THEN [exc |-> "ok", member |-> m]
    ELSE IF posix_splits(m.name, m.type) = {}
    THEN [exc |-> "ValueError", member |-> m]
    ELSE LET i == CHOOSE i \in posix_splits(m.name, m.type) :
                      \A j \in posix_splits(m.name, m.type) : i <= j
         IN  [exc |-> "ok",
              member |-> [m EXCEPT !.prefix = SubSeq(m.name, 1, i),
                                   !.name = SubSeq(m.name, i + 1, Len(m.name))]]

\* TarFile.gettarinfo: a file whose inode was met before becomes a link
gettarinfo(e, seen) ==
    [prefix |-> <<>>, name |-> arcname(e.path),
     type |-> CASE e.type = "dir" -> "DIRTYPE"
                [] e.type = "symlink" -> "SYMTYPE"
                [] e.ino \in DOMAIN seen -> "LNKTYPE"
                [] OTHER -> "REGTYPE",
     linkname |-> e.target,
     linkpath |-> IF e.type = "file" /\ e.ino \in DOMAIN seen
                  THEN arcname(seen[e.ino]) ELSE <<>>,
     size |-> IF e.type = "file" /\ e.ino \notin DOMAIN seen THEN e.size ELSE 0,
     data |-> IF e.type = "file" /\ e.ino \notin DOMAIN seen THEN e.data ELSE ""]

\* image_tar.add(root_dir, ".", recursive=True)
RECURSIVE add(_, _, _, _, _)
add(t, tar_format, todo, seen, members) ==
    IF todo = <<>> THEN [exc |-> "ok", members |-> members]
    ELSE IF ~HasPath(t, Head(todo))
    THEN add(t, tar_format, Tail(todo), seen, members)
    ELSE LET e == EntryAt(t, Head(todo))
             header == tobuf(tar_format, gettarinfo(e, seen))
         IN  IF header.exc # "ok"
             THEN [exc |-> header.exc, members |-> members]
             ELSE add(t, tar_format, Tail(todo),
                      IF e.type = "file" /\ e.ino \notin DOMAIN seen
                      THEN (e.ino :> e.path) @@ seen ELSE seen,
                      Append(members, header.member))

\* the member "." that stands for root_dir itself
RootMember ==
    [prefix |-> <<>>, name |-> <<".">>, type |-> "DIRTYPE", linkname |-> "",
     linkpath |-> <<>>, size |-> 0, data |-> ""]

\* a sub-archive: the members of a tar stream of the given format, piped
\* through the compressor of the instance; compress and _add_metadata hand
\* the same format to the tar_stream_writer, which encodes the header of
\* the entry in the outer container with it
SubArchive(comp, tar_format, members) ==
    [exc |-> "ok", comp |-> comp, tar_format |-> tar_format,
     header |-> tar_format, members |-> members]

\* tar_stream_reader with the command of _get_decompression_cmd(): the
\* decompressor gives the tar stream back iff the bytes are in its format
tar_stream_reader(archive, comp) ==
    IF archive.comp = comp THEN [exc |-> "ok", members |-> archive.members]
    ELSE [exc |-> "ReadError", members |-> <<>>]

\* TarFile.extractall: the path of a member is its prefix joined with its
\* name; a hard link is made to the file extracted before
RECURSIVE extractall(_, _, _)
extractall(members, i, t) ==
    IF i > Len(members) THEN t
    ELSE LET m == members[i]
             path == Tail(m.prefix \o m.name)
             e == CASE m.type = "DIRTYPE" -> Dir(path)
                    [] m.type = "SYMTYPE" -> Symlink(path, m.linkname)
                    [] m.type = "LNKTYPE" ->
                         [EntryAt(t, Tail(m.linkpath)) EXCEPT !.path = path]
                    [] OTHER -> File(path, m.size, m.data, i)
         IN  extractall(members, i + 1,
                        IF path = <<>> THEN t ELSE t \cup {e})

\* what compare_files looks at: names, types, contents, link targets and
\* which names are links to one file
Canonical(t) ==
    {[path |-> e.path, type |-> e.type, size |-> e.size, data |-> e.data,
      target |-> e.target,
      links |-> IF e.type = "file"
                THEN {o.path : o \in {x \in t : x.type = "file" /\ x.ino = e.ino}}
                ELSE {}] : e \in t}

\* the metadata dict of the build
MetadataDict == << [name |-> "meta", data |-> "test"] >>

\* the members compress writes when no step fails
Entries(file_name) ==
    LET name == _create_tarinfo_name(compression, file_name)
        entry == Member(name, StoredSize(file_name), Stored(file_name))
    IN  IF create_signature
        THEN <<entry, Member(Append(name, SIG), 1,
                             Signature(Stored(file_name), signing_key))>>
        ELSE <<entry>>

BuiltChecksums ==
    _record_checksum(
        _record_checksum(<<>>, _create_tarinfo_name(compression, "metadata"),
                         StoredSize("metadata"), Stored("metadata")),
        _create_tarinfo_name(compression, "image"),
        StoredSize("image"), Stored("image"))

ManifestEntries ==
    LET entry == Member(ManifestName, Len(BuiltChecksums), Text(BuiltChecksums))
    IN  IF create_signature
        THEN <<entry, Member(ManifestSigName, 1,
                             Signature(Text(BuiltChecksums), signing_key))>>
        ELSE <<entry>>

\* gpkg.compress on the tree root_dir, as one step
CompressTree ==
    /\ pc = "Init"
    /\ LET stats == _check_pre_image_files(root_dir)
           formats == _get_tar_format_from_stats(stats.image_max_path_length,
                          stats.image_max_file_size, stats.image_total_size)
           added == add(root_dir, formats.image_tar_format, PathsOrder, <<>>,
                        <<RootMember>>)
           image_size == Sum([i \in 1..Len(added.members) |->
                                  added.members[i].size])
           \* tar_stream_writer.close writes the header of the image member
           \* in the image format
           overflow == /\ formats.image_tar_format = "USTAR_FORMAT"
                       /\ image_size > OctalLimit
           version == <<Member(gpkg_version, 0, Blob("empty"))>>
           placeholder == Member(_create_tarinfo_name(compression, "image"),
                                 0, Blob("empty"))
       IN  /\ metadata' = SubArchive(compression, "USTAR_FORMAT", MetadataDict)
           /\ IF added.exc # "ok" \/ overflow
              THEN /\ image' = [NoImage EXCEPT
                                   !.exc = "ValueError",
                                   !.tar_format = formats.image_tar_format,
                                   !.header = formats.image_tar_format]
                   /\ file' = [magic |-> Magic(formats.container_tar_format),
                               typeflag |-> "0",
                               members |-> version \o Entries("metadata")
                                               \o <<placeholder>>]
                   /\ checksums' = <<>>
                   /\ pc' = "Failed"
              ELSE /\ image' = SubArchive(compression, formats.image_tar_format,
                                          added.members)
                   /\ file' = [magic |-> Magic(formats.container_tar_format),
                               typeflag |-> "0",
                               members |-> version \o Entries("metadata")
                                               \o Entries("image")
                                               \o ManifestEntries]
                   /\ checksums' = BuiltChecksums
                   /\ pc' = "Sealed"
    /\ UNCHANGED <<Settings, Streams, pipe, Reading, swaps, Rest, Remote, root_dir, decompress_dir, tampers, vres>>

\* gpkg.decompress: _verify_binpkg, then the image is piped through the
\* decompressor of the instance and extracted
DecompressTree ==
    /\ pc \in {"Sealed", "Failed"}
    /\ LET r == _verify_binpkg(file, request_signature, verify_signature,
                               FALSE, libs)
           image_tar == tar_stream_reader(image, compression)
       IN  /\ vres' = [exc |-> IF r.exc = "ok" THEN image_tar.exc ELSE r.exc,
                       msg |-> r.msg, tr |-> r.tr, at |-> r.at,
                       metadata_only |-> FALSE]
           /\ decompress_dir' =
                 IF r.exc = "ok" /\ image_tar.exc = "ok"
                 THEN [done |-> TRUE,
                       tree |-> extractall(image_tar.members, 1, NoTree)]
                 ELSE decompress_dir
    /\ UNCHANGED <<Settings, Streams, pipe, Reading, swaps, Rest, Remote, checksums, file, pc, tampers, root_dir,
                   metadata, image>>

InitTree ==
    InitInstance /\ root_dir \in Trees /\ metadata_bytes = 512 /\ meta = DefaultMeta

NextTree == CompressTree \/ DecompressTree

SpecTree == InitTree /\ [][NextTree]_vars

----------------------------------------------------------------------------
(* Reading a container *)

\* a verification that takes the checked members out of the container
Verify_consuming(metadata_only) ==
    /\ pc \in {"Sealed", "Failed"}
    /\ LET r == _verify_binpkg(file, request_signature, verify_signature,
                               metadata_only, libs)
       IN  /\ vres' = [exc |-> r.exc, msg |-> r.msg, tr |-> r.tr, at |-> r.at,
                       metadata_only |-> metadata_only]
           /\ file' = IF r.exc = "ok"
                      THEN [file EXCEPT !.members = SubSeq(@, 1, 1)]
                      ELSE file
    /\ UNCHANGED <<Settings, Streams, pipe, Reading, swaps, Other, checksums, pc, tampers>>

Verify(metadata_only) ==
    /\ pc \in {"Sealed", "Failed"}
    /\ LET r == _verify_binpkg(file, request_signature, verify_signature,
                               metadata_only, libs)
       IN  vres' = [exc |-> r.exc, msg |-> r.msg, tr |-> r.tr, at |-> r.at,
                    metadata_only |-> metadata_only]
    /\ UNCHANGED <<Settings, Streams, pipe, Reading, swaps, Other, checksums, file, pc, tampers>>

\* gpkg.decompress: _verify_binpkg() before the image is extracted
Decompress == Verify(FALSE)

\* gpkg.unpack_metadata: _verify_binpkg(metadata_only=True)
UnpackMetadata == Verify(TRUE)

----------------------------------------------------------------------------
(* Modifications of a sealed container at rest, between its build and a    *)
(* later read (the repacking done by the tests of tests/gpkg).             *)

RECURSIVE Without(_, _, _)
Without(members, S, i) ==
    IF i > Len(members) THEN <<>>
    ELSE (IF i \in S THEN <<>> ELSE <<members[i]>>) \o Without(members, S, i + 1)

CanTamper == pc = "Sealed" /\ tampers < MaxTampers

Tamper(members) ==
    /\ file' = [file EXCEPT !.members = members]
    /\ tampers' = tampers + 1
    /\ vres' = NoResult
    /\ UNCHANGED <<Settings, Streams, pipe, Reading, swaps, Other, checksums, pc>>

ManifestIndex(members) == Index(Names(members), ManifestName)

\* copy the container without one member, or without some of its signatures
StripMembers ==
    /\ CanTamper
    /\ \E S \in (SUBSET (1..Len(file.members))) \ {{}} :
        /\ \/ Cardinality(S) = 1
           \/ \A i \in S : EndsWithSig(file.members[i].name)
        /\ Tamper(Without(file.members, S, 1))

\* replace the bytes of a signature member
SignatureVariants(data) == {Signature(data, k) : k \in SigKeys}

CorruptSignature ==
    /\ CanTamper
    /\ \E i \in 1..Len(file.members) :
        /\ EndsWithSig(file.members[i].name)
        /\ file.members[i].data.t = "sig"
        /\ \E sig \in SignatureVariants(file.members[i].data.v.signed) :
            /\ sig # file.members[i].data
            /\ Tamper(ReplaceAt(file.members, i,
                                [file.members[i] EXCEPT !.data = sig]))

\* change bytes of a stored sub-archive, size unchanged
FlipByte ==
    /\ CanTamper
    /\ \E i \in 1..Len(file.members) :
        /\ file.members[i].data.t = "blob"
        /\ file.members[i].name # gpkg_version
        /\ ~EndsWithSig(file.members[i].name)
        /\ \E v \in Blobs \ {file.members[i].data.v} :
            Tamper(ReplaceAt(file.members, i,
                             [file.members[i] EXCEPT !.data = Blob(v)]))

\* rewrite the Manifest text
TamperManifest(lines) ==
    LET i == ManifestIndex(file.members)
    IN  Tamper(ReplaceAt(file.members, i,
                         [file.members[i] EXCEPT !.data = Text(lines)]))

HasManifest == /\ ManifestIndex(file.members) # 0
               /\ file.members[ManifestIndex(file.members)].data.t = "text"

ManifestLines == file.members[ManifestIndex(file.members)].data.v

ManifestLinesOf(f) == f.members[ManifestIndex(f.members)].data

SizeFields == {<<"0">>, <<"1">>, <<"2">>, <<"01">>, <<"02">>, <<"x">>}

AlterManifestSize ==
    /\ CanTamper /\ HasManifest
    /\ \E r \in 1..Len(ManifestLines) :
        /\ Len(ManifestLines[r]) >= 3
        /\ \E field \in SizeFields \ {ManifestLines[r][3]} :
            TamperManifest(ReplaceAt(ManifestLines, r,
                                     ReplaceAt(ManifestLines[r], 3, field)))

\* the same digest in upper case, the digest of other bytes, or no digest
DigestVariants(field) ==
    {<<"B2", field[2]>>, <<"S5", field[2]>>,
     <<field[1], "d0">>, <<field[1], "d1">>, <<"zz", "zz">>}

IsAlgorithm(field) == \E c \in MANIFEST2_HASH_DEFAULTS : field = <<c>>

AlterManifestDigest ==
    /\ CanTamper /\ HasManifest
    /\ \E r \in 1..Len(ManifestLines) :
        \E k \in 5..Len(ManifestLines[r]) :
            /\ IsAlgorithm(ManifestLines[r][k - 1])
            /\ Len(ManifestLines[r][k]) = 2
            /\ \E field \in DigestVariants(ManifestLines[r][k]) :
                /\ field # ManifestLines[r][k]
                /\ HexTag(ManifestLines[r][k - 1][1]) = LowerStr(field[1])
                   \/ field = <<"zz", "zz">>
                /\ TamperManifest(ReplaceAt(ManifestLines, r,
                                      ReplaceAt(ManifestLines[r], k, field)))

\* a record that lists only some, or none, of the configured algorithms
DropManifestDigests ==
    /\ CanTamper /\ HasManifest
    /\ \E r \in 1..Len(ManifestLines) :
        \E C \in (SUBSET MANIFEST2_HASH_DEFAULTS) \ {{}} :
            LET line == ManifestLines[r]
                keep == {k \in 1..Len(line) :
                            /\ ~(\E c \in C : line[k] = <<c>>)
                            /\ ~(k > 1 /\ \E c \in C : line[k - 1] = <<c>>)}
            IN  /\ keep # DOMAIN line
                /\ TamperManifest(ReplaceAt(ManifestLines, r,
                       Without(line, (1..Len(line)) \ keep, 1)))

ExtraNames == {<<base_name, "extra">>, <<base_name, "extra", SIG>>,
               gpkg_version, Append(gpkg_version, SIG),
               _create_tarinfo_name(compression, "image") \o <<SIG>>,
               _create_tarinfo_name(compression, "image") \o <<SIG, SIG>>}

\* append a member the Manifest does not list
AddMember ==
    /\ CanTamper
    /\ \E name \in ExtraNames :
        Tamper(Append(file.members, Member(name, 1, Blob("d0"))))

\* append a record to the Manifest
AddManifestRecord ==
    /\ CanTamper /\ HasManifest
    /\ \E name \in {<<base_name, "extra">>,
                     _create_tarinfo_name(compression, "image") \o <<SIG>>} :
        TamperManifest(Append(ManifestLines,
            _record_checksum_record(name, 1, Blob("d0"), libs)))

RecordedNames_extra == {<<base_name, "extra">>, <<base_name, "imagex">>}

\* repack with one more member and a Manifest record for it, whose digests
\* are those of the member's bytes or of other bytes
AddRecordedMember ==
    /\ CanTamper /\ HasManifest
    /\ \E name \in RecordedNames_extra : \E v \in Blobs :
        LET i == ManifestIndex(file.members)
            lines == Append(ManifestLines,
                        _record_checksum_record(name, 1, Blob(v), libs))
        IN  Tamper(Append(ReplaceAt(file.members, i,
                               [file.members[i] EXCEPT !.data = Text(lines)]),
                          Member(name, 1, Blob("d0"))))

\* overwrite the magic of the first header
CorruptMagic ==
    /\ CanTamper
    /\ file.magic # "garbage"
    /\ file' = [file EXCEPT !.magic = "garbage"]
    /\ tampers' = tampers + 1
    /\ vres' = NoResult
    /\ UNCHANGED <<Settings, Streams, pipe, Reading, swaps, Other, checksums, pc>>

----------------------------------------------------------------------------

Next ==
    \/ WriteVersion
    \/ AddMetadata
    \/ WriteImage
    \/ CompressorFails
    \/ SigningFails
    \/ BuildAborts
    \/ AddManifest
    \/ ContainerClose
    \/ Decompress
    \/ UnpackMetadata
    \/ StripMembers
    \/ CorruptSignature
    \/ FlipByte
    \/ AlterManifestSize
    \/ AlterManifestDigest
    \/ DropManifestDigests
    \/ AddMember
    \/ AddManifestRecord
    \/ AddRecordedMember
    \/ CorruptMagic

Spec == Init /\ [][Next]_vars

----------------------------------------------------------------------------
(* gpkg.update_metadata *)

dirname(name) == IF Len(name) > 0 /\ name[1] \in DirParts THEN name[1] ELSE ""

\* gpkg._extract_filename_compression: the name in front of ".tar" or of
\* ".tar" and a known extension; <<>> for InvalidCompressionMethod
_extract_filename_compression(name) ==
    LET b == basename(name)
    IN  IF Len(b) >= 2 /\ b[Len(b)] = ".tar" THEN SubSeq(b, 1, Len(b) - 1)
        ELSE IF Len(b) >= 3 /\ b[Len(b) - 1] = ".tar"
                /\ b[Len(b)] \in {".gz", ".xz"}
        THEN SubSeq(b, 1, Len(b) - 2)
        ELSE <<>>

Min(S) == CHOOSE x \in S : \A y \in S : x <= y

\* an earlier return of the first entry of that name, whatever its directory
_get_inner_tarinfo_any_directory(members, file_name) ==
    LET named == {i \in 1..Len(members) :
                     _extract_filename_compression(members[i].name) = <<file_name>>}
    IN  IF named # {} THEN Min(named) ELSE 0

\* gpkg._get_inner_tarinfo: position of the first member of that name under
\* base_name, else of the first under any directory; 0 for FileNotFound
_get_inner_tarinfo(members, file_name) ==
    LET named == {i \in 1..Len(members) :
                     _extract_filename_compression(members[i].name) = <<file_name>>}
        based == {i \in named : dirname(members[i].name) = base_name}
    IN  IF based # {} THEN Min(based)
        ELSE IF named # {} THEN Min(named)
        ELSE 0

\* no update_metadata call is under way
Quiet == update.pc \in {"idle", "Moved", "Failed"}

\* update_metadata was not called yet
Untouched == update.pc = "idle"

\* update_metadata: _verify_binpkg, self.checksums = [], the temporary file
\* is opened in the format of the container and gets the version member
UpdateVerify ==
    /\ pc \in {"Sealed", "Failed"} /\ Quiet
    /\ \E m \in Blobs :
        LET r == _verify_binpkg(file, request_signature, verify_signature,
                                FALSE, libs)
        IN  /\ vres' = [exc |-> r.exc, msg |-> r.msg, tr |-> r.tr, at |-> r.at,
                        metadata_only |-> FALSE]
            /\ IF r.exc # "ok"
               THEN /\ update' = [pc |-> "Failed", metadata |-> m,
                                  container_old |-> file]
                    /\ UNCHANGED <<checksums, tmp_gpkg_file>>
               ELSE /\ update' = [pc |-> "WriteVersion", metadata |-> m,
                                  container_old |-> file]
                    /\ checksums' = <<>>
                    /\ tmp_gpkg_file' =
                          [magic |-> Magic(_get_tar_format(file)),
                           typeflag |-> "0",
                           members |-> <<Member(gpkg_version, 0, Blob("empty"))>>]
    /\ UNCHANGED <<Settings, Streams, pipe, Reading, swaps, Tree, Remote, file, pc, tampers>>

\* an update that writes the new metadata into the container itself
UpdateAddMetadata_in_place ==
    /\ update.pc = "WriteVersion"
    /\ LET name == _create_tarinfo_name(compression, "metadata")
           data == Blob(update.metadata)
           size == StoredSize("metadata")
           entry == Member(name, size, data)
           i == Index(Names(file.members), name)
       IN  /\ file' = [file EXCEPT !.members =
                          IF i = 0 THEN Append(@, entry) ELSE ReplaceAt(@, i, entry)]
           /\ tmp_gpkg_file' = [tmp_gpkg_file EXCEPT !.members = Append(@, entry)]
           /\ checksums' = _record_checksum(checksums, name, size, data)
    /\ update' = [update EXCEPT !.pc = "WriteMetadata"]
    /\ UNCHANGED <<Settings, Streams, pipe, Reading, swaps, Tree, Remote, pc, tampers, vres>>

\* update_metadata: _add_metadata(container, metadata, compression_cmd)
UpdateAddMetadata ==
    /\ update.pc = "WriteVersion"
    /\ LET name == _create_tarinfo_name(compression, "metadata")
           data == Blob(update.metadata)
           size == StoredSize("metadata")
           entry == Member(name, size, data)
           signature == Member(Append(name, SIG), 1, Signature(data, signing_key))
       IN  /\ tmp_gpkg_file' = [tmp_gpkg_file EXCEPT !.members =
                                   IF create_signature THEN @ \o <<entry, signature>>
                                   ELSE Append(@, entry)]
           /\ checksums' = _record_checksum(checksums, name, size, data)
    /\ update' = [update EXCEPT !.pc = "WriteMetadata"]
    /\ UNCHANGED <<Settings, Streams, pipe, Reading, swaps, Tree, Remote, file, pc, tampers, vres>>

\* a reuse that takes the image over without its signature member
UpdateReuseImage_without_signature ==
    /\ update.pc = "WriteMetadata"
    /\ LET i == _get_inner_tarinfo(file.members, "image")
       IN  IF i = 0
           THEN /\ update' = [update EXCEPT !.pc = "Failed"]
                /\ UNCHANGED <<checksums, tmp_gpkg_file>>
           ELSE
           LET image_old_tarinfo == file.members[i]
               manifest_old == _load_manifest(
                                   getmember(file.members, ManifestName).data).manifest
               m == FindRecord(manifest_old, image_old_tarinfo.name)
           IN  /\ checksums' = IF m = <<>> THEN checksums ELSE Append(checksums, m)
               /\ tmp_gpkg_file' = [tmp_gpkg_file EXCEPT !.members =
                                       Append(@, image_old_tarinfo)]
               /\ update' = [update EXCEPT !.pc = "WriteImage"]
    /\ UNCHANGED <<Settings, Streams, pipe, Reading, swaps, Tree, Remote, file, pc, tampers, vres>>

\* update_metadata, "reuse image": the record of the old Manifest, the image
\* member and its signature member are taken over from the old container
UpdateReuseImage ==
    /\ update.pc = "WriteMetadata"
    /\ LET i == _get_inner_tarinfo(file.members, "image")
       IN  IF i = 0
           THEN /\ update' = [update EXCEPT !.pc = "Failed"]
                /\ UNCHANGED <<checksums, tmp_gpkg_file>>
           ELSE
           LET image_old_tarinfo == file.members[i]
               manifest_old == _load_manifest(
                                   getmember(file.members, ManifestName).data).manifest
               m == FindRecord(manifest_old, image_old_tarinfo.name)
               image_sign_old_name == Append(image_old_tarinfo.name, SIG)
           IN  /\ checksums' = IF m = <<>> THEN checksums ELSE Append(checksums, m)
               /\ tmp_gpkg_file' = [tmp_gpkg_file EXCEPT !.members =
                       IF In(image_sign_old_name, Names(file.members))
                       THEN @ \o <<image_old_tarinfo,
                                   getmember(file.members, image_sign_old_name)>>
                       ELSE Append(@, image_old_tarinfo)]
               /\ update' = [update EXCEPT !.pc = "WriteImage"]
    /\ UNCHANGED <<Settings, Streams, pipe, Reading, swaps, Tree, Remote, file, pc, tampers, vres>>

\* update_metadata: _add_manifest(container)
UpdateAddManifest ==
    /\ update.pc = "WriteImage"
    /\ LET manifest == Text(checksums)
           entry == Member(ManifestName, Len(checksums), manifest)
           signature == Member(ManifestSigName, 1, Signature(manifest, signing_key))
       IN  tmp_gpkg_file' = [tmp_gpkg_file EXCEPT !.members =
                               IF create_signature THEN @ \o <<entry, signature>>
                               ELSE Append(@, entry)]
    /\ update' = [update EXCEPT !.pc = "WriteManifest"]
    /\ UNCHANGED <<Settings, Streams, pipe, Reading, swaps, Tree, Remote, checksums, file, pc, tampers, vres>>

\* update_metadata: shutil.move(tmp_gpkg_file_name, self.gpkg_file)
UpdateMove ==
    /\ update.pc = "WriteManifest"
    /\ file' = tmp_gpkg_file
    /\ tmp_gpkg_file' = NoFile
    /\ update' = [update EXCEPT !.pc = "Moved"]
    /\ vres' = NoResult
    /\ UNCHANGED <<Settings, Streams, pipe, Reading, swaps, Tree, Remote, checksums, pc, tampers>>

\* an exception leaves update_metadata while the temporary file is written:
\* the compressor or the signing command fails, or any other error
UpdateFails ==
    /\ update.pc \in {"WriteVersion", "WriteMetadata", "WriteImage"}
    /\ \/ /\ update.pc = "WriteVersion" /\ compression # "none"
          /\ tmp_gpkg_file' = [tmp_gpkg_file EXCEPT !.members =
                Append(@, Member(_create_tarinfo_name(compression, "metadata"),
                                 0, Blob("empty")))]
       \/ /\ update.pc = "WriteVersion" /\ create_signature
          /\ tmp_gpkg_file' = [tmp_gpkg_file EXCEPT !.members =
                Append(@, Member(_create_tarinfo_name(compression, "metadata"),
                                 StoredSize("metadata"), Blob(update.metadata)))]
       \/ /\ update.pc = "WriteImage" /\ create_signature
          /\ tmp_gpkg_file' = [tmp_gpkg_file EXCEPT !.members =
                Append(@, Member(ManifestName, Len(checksums), Text(checksums)))]
       \/ UNCHANGED tmp_gpkg_file
    /\ update' = [update EXCEPT !.pc = "Failed"]
    /\ UNCHANGED <<Settings, Streams, pipe, Reading, swaps, Tree, Remote, checksums, file, pc, tampers, vres>>

\* a container is built, possibly repacked, and its metadata updated any
\* number of times
NextUpdate ==
    \/ WriteVersion
    \/ AddMetadata
    \/ WriteImage
    \/ SigningFails
    \/ AddManifest
    \/ ContainerClose
    \/ Untouched /\ StripMembers
    \/ Untouched /\ AddMember
    \/ Untouched /\ AddRecordedMember
    \/ UpdateVerify
    \/ UpdateAddMetadata
    \/ UpdateReuseImage
    \/ UpdateAddManifest
    \/ UpdateMove
    \/ UpdateFails

SpecUpdate == Init /\ [][NextUpdate]_vars

----------------------------------------------------------------------------
(* gpkg.get_metadata_url: the container is read over HTTP range requests   *)

\* the init download file head size, and the cap on the prefix
init_size == 51200
MaxPrefix == 10000000

\* byte lengths of the stored metadata sub-archive of the remote container
MetadataSizes == {1, 39424, 39425, 39936, 100000, 9988607, 9988608}

\* byte length of a member's data
StoredBytes(m) ==
    IF m.name = gpkg_version THEN 0
    ELSE IF _extract_filename_compression(m.name) = <<"metadata">>
    THEN metadata_bytes
    ELSE IF EndsWithSig(m.name) THEN 833
    ELSE IF m.name = ManifestName THEN 400
    ELSE 1048576

\* a tar member takes a header block and its data in blocks of 512 bytes
Blocks(n) == ((n + 511) \div 512) * 512

RECURSIVE offset(_, _)
offset(members, i) ==
    IF i = 1 THEN 0
    ELSE offset(members, i - 1) + 512 + Blocks(StoredBytes(members[i - 1]))

offset_data(members, i) == offset(members, i) + 512

\* tarfile on the first n bytes of the container: the members whose header
\* lies within them
getmembers(members, n) ==
    LET seen == {i \in 1..Len(members) : offset_data(members, i) <= n}
    IN  SubSeq(members, 1, Cardinality(seen))

\* the body of an HTTP response to "Range: bytes=first-last" is given by the
\* number of bytes of the container up to last
Range(first, last) == [first |-> first, last |-> last]

\* an end that stays where it is when it lies on a block boundary
end_size_rounded(members, i) ==
    Blocks(offset_data(members, i) + StoredBytes(members[i]) + 10240)

\* end_size of get_metadata_url
end_size(members, i) ==
    LET end == offset_data(members, i) + StoredBytes(members[i]) + 10240
    IN  end + (512 - (end % 512))

UrlRaise(exc, requests, steps) ==
    [exc |-> exc, metadata |-> "none", requests |-> requests, steps |-> steps]

\* "Reload and process full metadata" of get_metadata_url
UrlProcess(members, requests, check_signature) ==
    LET fetched == getmembers(members, requests[Len(requests)].last + 1)
        i == _get_inner_tarinfo(fetched, "metadata")
        metadata_tarinfo == fetched[i]
        signature_filename == Append(metadata_tarinfo.name, SIG)
        verify == In(signature_filename, Names(fetched)) /\ check_signature
        run == gpg_verify(getmember(fetched, signature_filename).data,
                          metadata_tarinfo.data)
        fin == IF verify THEN finish(VERIFY, run.rc, run.status) ELSE "ok"
        steps == IF verify THEN <<"verify">> ELSE <<>>
    IN  IF i = 0 THEN UrlRaise("FileNotFound", requests, <<>>)
        ELSE IF fin # "ok" THEN UrlRaise(fin, requests, steps)
        ELSE [exc |-> "ok", metadata |-> metadata_tarinfo.data.v,
              requests |-> requests,
              steps |-> steps \o <<"decompress", "parse">>]

\* the condition under which get_metadata_url verifies a signature it found
UrlCondition(request, verify) == request /\ verify

\* gpkg.get_metadata_url (tarfile.open raises ReadError when the bytes are
\* no tar archive)
get_metadata_url(f, request, verify) ==
    LET first == <<Range(0, init_size)>>
        head == getmembers(f.members, init_size + 1)
        i == _get_inner_tarinfo(head, "metadata")
        end == end_size(head, i)
    IN  IF _get_tar_format(f) = "None" THEN UrlRaise("ReadError", first, <<>>)
        ELSE IF ~In(gpkg_version, Names(head))
        THEN UrlRaise("InvalidBinaryPackageFormat", first, <<>>)
        ELSE IF i = 0 THEN UrlRaise("FileNotFound", first, <<>>)
        ELSE IF end > MaxPrefix
        THEN UrlRaise("InvalidBinaryPackageFormat", first, <<>>)
        ELSE UrlProcess(f.members,
                        IF end > init_size
                        THEN Append(first, Range(init_size + 1, end))
                        ELSE first,
                        UrlCondition(request, verify))

\* _add_metadata: the members of the metadata tar, str values encoded
m_data(metadata_dict) ==
    [i \in 1..Len(metadata_dict) |->
        [name |-> metadata_dict[i].name, data |-> metadata_dict[i].data]]

\* the tar members that stored bytes of a metadata sub-archive hold: those
\* written by _add_metadata, or other content for other bytes
metadata_tar(v) ==
    IF v = Stored("metadata").v THEN m_data(meta)
    ELSE <<[name |-> "?", data |-> v]>>

\* {k.name: metadata.extractfile(k).read() for k in metadata.getmembers()}
read_all(members) ==
    [i \in 1..Len(members) |->
        [name |-> members[i].name, kind |-> "bytes", data |-> members[i].data]]

Wants ==
    {WantAll, [kind |-> "str", names |-> <<"meta">>]}
        \cup {[kind |-> "list", names |-> n] :
                 n \in {<<>>, <<"test1">>, <<"meta", "nope">>}}

\* the end of get_metadata_url: "k in want" compares a TarInfo with the
\* names, which is never equal for a list and a TypeError for a str
UrlLoad(res, want_) ==
    LET members == metadata_tar(res.metadata)
        fails == want_.kind = "str" /\ members # <<>>
    IN  [exc |-> IF res.exc = "ok" /\ fails THEN "TypeError" ELSE res.exc,
         metadata |-> res.metadata, requests |-> res.requests,
         steps |-> res.steps, want |-> want_,
         returned |-> IF res.exc = "ok" /\ want_.kind = "None"
                      THEN read_all(members) ELSE <<>>]

\* get_metadata_url(url) on the container that the server holds
GetMetadataUrl ==
    /\ pc \in {"Sealed", "Failed"}
    /\ url' = UrlLoad(get_metadata_url(file, request_signature,
                                       verify_signature), WantAll)
    /\ UNCHANGED <<Settings, Streams, pipe, Reading, swaps, Tree, Rest, metadata_bytes, meta, got, checksums,
                   file, pc, tampers, vres>>

\* a container whose metadata sub-archive has one of the lengths is built,
\* possibly modified on the server, and read over HTTP
InitUrl ==
    /\ InitInstance /\ root_dir = NoTree /\ metadata_bytes \in MetadataSizes
    /\ meta = DefaultMeta

NextUrl ==
    \/ WriteVersion
    \/ AddMetadata
    \/ WriteImage
    \/ AddManifest
    \/ ContainerClose
    \/ StripMembers
    \/ CorruptSignature
    \/ FlipByte
    \/ GetMetadataUrl

SpecUrl == InitUrl /\ [][NextUrl]_vars

----------------------------------------------------------------------------
(* The metadata mapping: compress(root_dir, metadata), and what the local  *)
(* read (get_metadata) and the remote read (get_metadata_url) return.      *)

\* the mappings handed to compress: none, a str value, two bytes values
MetadataDicts ==
    {<<>>, DefaultMeta,
     <<[name |-> "test1", kind |-> "bytes", data |-> "abc"],
       [name |-> "test2", kind |-> "bytes", data |-> "xyz"]>>}

\* dict.get(k, None)
get(metadata_, k) ==
    IF \E i \in 1..Len(metadata_) : metadata_[i].name = k
    THEN LET i == CHOOSE j \in 1..Len(metadata_) : metadata_[j].name = k
         IN  [name |-> k, kind |-> metadata_[i].kind, data |-> metadata_[i].data]
    ELSE [name |-> k, kind |-> "None", data |-> ""]

\* gpkg.unpack_metadata(dest_dir=None)
unpack_metadata(f, request, verify, algos) ==
    LET r == _verify_binpkg(f, request, verify, TRUE, algos)
        i == _get_inner_tarinfo(f.members, "metadata")
    IN  IF r.exc # "ok" THEN [exc |-> r.exc, returned |-> <<>>]
        ELSE IF i = 0 THEN [exc |-> "FileNotFound", returned |-> <<>>]
        ELSE [exc |-> "ok",
              returned |-> read_all(metadata_tar(f.members[i].data.v))]

\* gpkg.get_metadata; for a str the one value is returned, not a mapping
get_metadata(f, request, verify, algos, want_) ==
    LET r == unpack_metadata(f, request, verify, algos)
    IN  [exc |-> r.exc, want |-> want_,
         returned |-> IF r.exc # "ok" \/ want_.kind = "None" THEN r.returned
                      ELSE [i \in 1..Len(want_.names) |->
                               get(r.returned, want_.names[i])]]

GetMetadata ==
    /\ pc \in {"Sealed", "Failed"}
    /\ \E want_ \in Wants :
        got' = get_metadata(file, request_signature, verify_signature, libs,
                            want_)
    /\ UNCHANGED <<Settings, Streams, pipe, Reading, swaps, Tree, Rest, metadata_bytes, meta, url, checksums,
                   file, pc, tampers, vres>>

\* get_metadata_url(url, want) with a list or a str
GetMetadataUrlWant ==
    /\ pc \in {"Sealed", "Failed"}
    /\ \E want_ \in Wants \ {WantAll} :
        url' = UrlLoad(get_metadata_url(file, request_signature,
                                        verify_signature), want_)
    /\ UNCHANGED <<Settings, Streams, pipe, Reading, swaps, Tree, Rest, metadata_bytes, meta, got, checksums,
                   file, pc, tampers, vres>>

\* a member name under the other directory
rebase(name) ==
    IF dirname(name) = base_name THEN <<"alt/">> \o Tail(name) ELSE name

\* the same container as built under another base name: members, Manifest
\* records and the signature of the Manifest
Rebased(members) ==
    LET lines(v) == [j \in 1..Len(v) |-> [v[j] EXCEPT ![2] = rebase(@)]]
        data(d) == CASE d.t = "text" -> Text(lines(d.v))
                     [] d.t = "sig" /\ d.v.signed.t = "text" ->
                            Signature(Text(lines(d.v.signed.v)), d.v.key)
                     [] OTHER -> d
    IN  [i \in 1..Len(members) |->
            [name |-> rebase(members[i].name), size |-> members[i].size,
             data |-> data(members[i].data)]]

\* the served file is a container of another base name
OtherBaseName ==
    /\ CanTamper
    /\ Tamper(Rebased(file.members))

InitMeta ==
    /\ InitInstance /\ root_dir = NoTree /\ metadata_bytes \in {512, 9988608}
    /\ meta \in MetadataDicts

NextMeta ==
    \/ WriteVersion
    \/ AddMetadata
    \/ WriteImage
    \/ AddManifest
    \/ ContainerClose
    \/ OtherBaseName
    \/ GetMetadataUrl
    \/ GetMetadataUrlWant
    \/ GetMetadata

SpecMeta == InitMeta /\ [][NextMeta]_vars

----------------------------------------------------------------------------
(* External programs, threads and the stream objects: tar_stream_writer,   *)
(* tar_stream_reader and checksum_helper, as the operations of gpkg and a  *)
(* caller of the two stream classes use them.  An operation is the list of *)
(* the calls it is still to make; a call that waits for a program is taken *)
(* in two steps, up to the wait and from the wait on.                      *)

COF == "CompressorOperationFailed"

\* subprocess.Popen(cmd, stdin=PIPE, stdout=PIPE, stderr=PIPE)
Popen(role, entry) ==
    [role |-> role, entry |-> entry, state |-> "running", rc |-> 0,
     stdin |-> "open"]

\* threading.Thread(target=..., daemon=True).start()
Thread(name, p) == [name |-> name, p |-> p, state |-> "running", exc |-> "none"]

\* one call of an operation; an "h" call is made although an exception is
\* on its way (__exit__ of a with block, except and finally clauses)
Call(f, entry) == [f |-> f, entry |-> entry, gpg |-> "None", h |-> FALSE]
Handler(f, entry) == [f |-> f, entry |-> entry, gpg |-> "None", h |-> TRUE]
NewChecksumHelper(gpg_operation, entry) ==
    [f |-> "checksum_helper", entry |-> entry, gpg |-> gpg_operation, h |-> FALSE]

\* _get_compression_cmd / _get_decompression_cmd: None without compression
HasCmd == compression # "none"

\* _add_metadata, and the image part of compress: helper, writer, the
\* tarfile written through it, the end of the with block, then the digests
\* and the signature are taken from the helper
add_archive(entry) ==
    << NewChecksumHelper(IF create_signature THEN "SIGNING" ELSE "None", entry),
       Call("tar_stream_writer", entry), Call("write", entry),
       Handler("__exit__", entry), Call("_record_checksum", entry) >>
        \o (IF create_signature THEN << Call("_add_signature", entry) >>
            ELSE <<>>)

\* _add_manifest: a helper only when the Manifest is signed
add_manifest ==
    IF create_signature
    THEN << NewChecksumHelper("SIGNING", "Manifest"), Call("finish", "Manifest"),
            Call("_add_signature", "Manifest") >>
    ELSE <<>>

\* _verify_binpkg of a container that this instance built: the Manifest
\* signature, then one helper for each sub-archive, whose digests are
\* compared with the record once it was fed
verify_calls(metadata_only) ==
    LET check == verify_condition(request_signature, create_signature,
                                  verify_signature)
        one(entry) == << NewChecksumHelper(IF check THEN "VERIFY" ELSE "None",
                                           entry),
                         Call("finish", entry) >>
        digests(entry) == << Call("hexdigest", entry) >>
    IN  IF check /\ ~create_signature
        THEN << Call("raise", "Manifest") >>
        ELSE (IF check THEN one("Manifest") ELSE <<>>)
                 \o one("metadata") \o digests("metadata")
                 \o (IF metadata_only THEN <<>>
                     ELSE one("image") \o digests("image"))

\* the calls of the operations of gpkg, and of a caller that uses a writer
\* or a reader by itself and either kills it or closes it, then closes it
Program(op) ==
    CASE op = "compress" ->
            add_archive("metadata") \o add_archive("image") \o add_manifest
      [] op = "verify" -> verify_calls(FALSE)
      [] op = "unpack_metadata" ->
            verify_calls(TRUE)
                \o << Call("tar_stream_reader", "metadata"),
                      Call("read", "metadata"), Handler("__exit__", "metadata") >>
      [] op = "decompress" ->
            verify_calls(FALSE)
                \o << Call("tar_stream_reader", "image"),
                      Call("extractall", "image"), Handler("except", "image"),
                      Handler("kill", "image"), Handler("__exit__", "image") >>
      [] op = "update_metadata" ->
            verify_calls(FALSE) \o add_archive("metadata") \o add_manifest
      [] op = "writer.kill" ->
            << Handler("tar_stream_writer", "image"), Handler("write", "image"),
               Handler("kill", "image"), Handler("close", "image") >>
      [] op = "writer.close" ->
            << Handler("tar_stream_writer", "image"), Handler("write", "image"),
               Handler("close", "image"), Handler("close", "image") >>
      [] op = "reader.kill" ->
            << Handler("tar_stream_reader", "image"), Handler("extractall", "image"),
               Handler("kill", "image"), Handler("close", "image") >>
      [] op = "reader.close" ->
            << Handler("tar_stream_reader", "image"), Handler("read", "image"),
               Handler("close", "image"), Handler("close", "image") >>

Operations == {"compress", "verify", "unpack_metadata", "decompress",
               "update_metadata"}

Callers == {"writer.kill", "writer.close", "reader.kill", "reader.close"}

\* the old state is left alone by the steps of this section
Package == <<Settings, Other, checksums, file, pc, tampers, vres, swaps, pipe,
             Reading>>

\* an operation, or a use of a stream class, begins; the programs of the
\* one before are not counted any more
StartOp ==
    /\ job.calls = <<>> /\ job.waiting = "none"
    /\ \E op \in Operations \cup Callers :
        job' = [op |-> op, calls |-> Program(op), exc |-> "none",
                call |-> "none", raised |-> "none", waiting |-> "none"]
    /\ procs' = <<>> /\ threads' = <<>>
    /\ stream' = NoStream /\ helper' = NoHelper
    /\ UNCHANGED Package

\* the next call is due: nothing is waited for, and the call is made in the
\* normal course or is a handler
Due(f) ==
    /\ job.calls # <<>> /\ job.waiting = "none"
    /\ Head(job.calls).f = f
    /\ (IF job.exc = "none" THEN TRUE ELSE Head(job.calls).h)

\* the call returned, raising exc ("none": normally); a caller of the stream
\* classes goes on after an exception, an operation of gpkg lets it through
Returned(f, exc) ==
    [op |-> job.op, calls |-> Tail(job.calls),
     exc |-> IF exc = "none" \/ job.op \in Callers THEN job.exc ELSE exc,
     call |-> f, raised |-> exc, waiting |-> "none"]

\* the call is blocked in a wait
Waiting(f, for) ==
    [op |-> job.op, calls |-> job.calls, exc |-> job.exc, call |-> f,
     raised |-> "none", waiting |-> for]

\* an exception is on its way: the calls up to the next handler are not made
Propagate ==
    /\ job.calls # <<>> /\ job.waiting = "none"
    /\ job.exc # "none" /\ ~Head(job.calls).h
    /\ job' = [job EXCEPT !.calls = Tail(@)]
    /\ UNCHANGED <<Package, procs, threads, stream, helper>>

\* _verify_binpkg raises MissingSignature
RaiseMissingSignature ==
    /\ Due("raise")
    /\ job' = Returned("raise", "MissingSignature")
    /\ UNCHANGED <<Package, procs, threads, stream, helper>>

\* checksum_helper.__init__: gpg is started for SIGNING and for VERIFY
ChecksumHelper ==
    /\ Due("checksum_helper")
    /\ LET c == Head(job.calls)
       IN  IF c.gpg = "None"
           THEN /\ helper' = [gpg_operation |-> "None", p |-> 0,
                              finished |-> FALSE, entry |-> c.entry,
                              returned |-> FALSE]
                /\ procs' = procs
           ELSE /\ procs' = Append(procs,
                        Popen(IF c.gpg = "SIGNING" THEN "signer" ELSE "verifier",
                              c.entry))
                /\ helper' = [gpg_operation |-> c.gpg, p |-> Len(procs) + 1,
                              finished |-> FALSE, entry |-> c.entry,
                              returned |-> FALSE]
    /\ job' = Returned("checksum_helper", "none")
    /\ UNCHANGED <<Package, threads, stream>>

\* tar_stream_writer.__init__: the header is written without size, the
\* compressor and the thread that reads its output are started
TarStreamWriter ==
    /\ Due("tar_stream_writer")
    /\ LET c == Head(job.calls)
       IN  IF HasCmd
           THEN /\ procs' = Append(procs, Popen("compressor", c.entry))
                /\ threads' = Append(threads,
                                     Thread("tar_stream_cmd_read", Len(procs) + 1))
                /\ stream' = [kind |-> "writer", entry |-> c.entry,
                              p |-> Len(procs) + 1, t |-> Len(threads) + 1,
                              killed |-> FALSE, closed |-> FALSE,
                              header |-> "unsized", appended |-> FALSE]
           ELSE /\ UNCHANGED <<procs, threads>>
                /\ stream' = [kind |-> "writer", entry |-> c.entry,
                              p |-> 0, t |-> 0,
                              killed |-> FALSE, closed |-> FALSE,
                              header |-> "unsized", appended |-> FALSE]
    /\ job' = Returned("tar_stream_writer", "none")
    /\ UNCHANGED <<Package, helper>>

\* tar_stream_reader.__init__: the decompressor and the thread that feeds
\* its stdin are started
TarStreamReader ==
    /\ Due("tar_stream_reader")
    /\ LET c == Head(job.calls)
       IN  IF HasCmd
           THEN /\ procs' = Append(procs, Popen("decompressor", c.entry))
                /\ threads' = Append(threads,
                                     Thread("tar_stream_stdin_writer",
                                            Len(procs) + 1))
                /\ stream' = [kind |-> "reader", entry |-> c.entry,
                              p |-> Len(procs) + 1, t |-> Len(threads) + 1,
                              killed |-> FALSE, closed |-> FALSE,
                              header |-> "none", appended |-> FALSE]
           ELSE /\ UNCHANGED <<procs, threads>>
                /\ stream' = [kind |-> "reader", entry |-> c.entry,
                              p |-> 0, t |-> 0,
                              killed |-> FALSE, closed |-> FALSE,
                              header |-> "none", appended |-> FALSE]
    /\ job' = Returned("tar_stream_reader", "none")
    /\ UNCHANGED <<Package, helper>>

\* a close() that takes only the death by a signal for a failure
failed_by_signal(p) == IF p = 0 THEN FALSE ELSE procs[p].rc < EX_OK

\* "self.proc.wait() != os.EX_OK" of the two close()
failed(p) == IF p = 0 THEN FALSE ELSE procs[p].rc # EX_OK

\* a close() that does not wait for the program
Exited_nowait(p) == TRUE

\* the program has exited
Exited(p) == IF p = 0 THEN TRUE ELSE procs[p].state = "exited"

\* a close() that does not join the thread
Joined_nowait(t) == TRUE

\* "if self.read_thread.is_alive(): self.read_thread.join()" returned
Joined(t) == IF t = 0 THEN TRUE ELSE threads[t].state # "running"

\* a program exits by itself: with failure at any time, with success once
\* its stdin was closed
ProcExits ==
    /\ \E p \in 1..Len(procs) : \E rc \in {0, 1} :
        /\ procs[p].state = "running"
        /\ rc = 0 => procs[p].stdin = "closed"
        /\ procs' = [procs EXCEPT ![p].state = "exited", ![p].rc = rc]
    /\ UNCHANGED <<Package, threads, stream, helper, job>>

\* tar_stream_writer.write, for the tarfile that is written through it
Write ==
    /\ Due("write")
    /\ job' = Returned("write",
                       IF stream.closed THEN "OSError"
                       ELSE IF stream.p # 0 /\ procs[stream.p].state = "exited"
                       THEN "BrokenPipeError"
                       ELSE "none")
    /\ UNCHANGED <<Package, procs, threads, stream, helper>>

\* unpack_metadata: metadata_reader.read() takes the output up to its end,
\* then tarfile.open; after a failure of the decompressor the output may be
\* whole or not
Read ==
    /\ Due("read")
    /\ Exited(stream.p)
    /\ \E exc \in {"none", "ReadError"} :
        /\ exc = "ReadError" => (stream.p # 0 /\ procs[stream.p].rc = 1)
        /\ job' = Returned("read", exc)
    /\ UNCHANGED <<Package, procs, threads, stream, helper>>

\* decompress: image.extractall, which stops at the end of the archive
ExtractAll ==
    /\ Due("extractall")
    /\ \E exc \in {"none", "ReadError"} :
        /\ exc = "ReadError" =>
              (stream.p # 0 /\ procs[stream.p].state = "exited"
                  /\ procs[stream.p].rc = 1)
        /\ job' = Returned("extractall", exc)
    /\ UNCHANGED <<Package, procs, threads, stream, helper>>

\* decompress: the bare except clause; "!!!" + "\n" + e with the exception
\* class e is a TypeError
ExceptAll ==
    /\ Due("except")
    /\ job' = [job EXCEPT !.calls = Tail(@), !.call = "except",
                          !.raised = IF job.exc = "none" THEN "none"
                                     ELSE "TypeError",
                          !.exc = IF job.exc = "none" THEN "none"
                                  ELSE "TypeError"]
    /\ UNCHANGED <<Package, procs, threads, stream, helper>>

\* proc.kill()
kill(ps, p) ==
    IF ps[p].state = "running"
    THEN [ps EXCEPT ![p].state = "exited", ![p].rc = -9]
    ELSE ps

\* tar_stream_writer.kill and tar_stream_reader.kill, up to the wait of the
\* close() they end with; without external program nothing is done
Kill ==
    /\ Due("kill")
    /\ stream.kind # "none"
    /\ IF stream.p = 0
       THEN /\ job' = Returned("kill", "none")
            /\ UNCHANGED <<procs, stream>>
       ELSE /\ procs' = [kill(procs, stream.p) EXCEPT ![stream.p].stdin = "closed"]
            /\ IF stream.closed
               THEN /\ stream' = [stream EXCEPT !.killed = TRUE]
                    /\ job' = Returned("kill", "none")
               ELSE /\ stream' = [stream EXCEPT !.killed = TRUE,
                                     !.closed = (stream.kind = "reader")]
                    /\ job' = Waiting("kill", "wait")
    /\ UNCHANGED <<Package, threads, helper>>

\* close(), up to the wait: the writer closes the stdin of the compressor,
\* the reader sets closed; a closed stream returns at once
Close ==
    /\ \E f \in {"close", "__exit__"} : Due(f)
    /\ stream.kind # "none"
    /\ LET f == Head(job.calls).f
       IN  IF stream.closed
           THEN /\ job' = Returned(f, "none")
                /\ UNCHANGED <<procs, stream>>
           ELSE /\ job' = Waiting(f, "wait")
                /\ stream' = [stream EXCEPT !.closed = (stream.kind = "reader")]
                /\ procs' = IF stream.kind = "writer" /\ stream.p # 0
                            THEN [procs EXCEPT ![stream.p].stdin = "closed"]
                            ELSE procs
    /\ UNCHANGED <<Package, threads, helper>>

\* what __exit__ lets through: that of the reader swallows the failure
Let(f, exc) ==
    IF f = "__exit__" /\ stream.kind = "reader" /\ exc = COF THEN "none" ELSE exc

\* the helper of the writer has a gpg program to wait for
HelperRuns == helper.p # 0 /\ ~helper.finished

\* finish() of the helper, if there is one, has returned
FinishReturned ==
    IF helper.entry = "" THEN helper ELSE [helper EXCEPT !.returned = TRUE]

\* tar_stream_writer.close from proc.wait() on: a failure is raised before
\* anything else; else the thread is joined, the header is patched, the
\* member is appended and the helper is finished
WriterCloseReturn ==
    /\ job.waiting = "wait" /\ stream.kind = "writer"
    /\ Exited(stream.p)
    /\ IF failed(stream.p)
       THEN /\ job' = Returned(job.call, COF)
            /\ UNCHANGED <<stream, procs, helper>>
       ELSE /\ Joined(stream.t)
            /\ stream' = [stream EXCEPT !.header = "patched", !.closed = TRUE,
                                        !.appended = TRUE]
            /\ IF HelperRuns
               THEN /\ procs' = [procs EXCEPT ![helper.p].stdin = "closed"]
                    /\ job' = Waiting(job.call, "finish")
                    /\ helper' = helper
               ELSE /\ procs' = procs
                    /\ job' = Returned(job.call, "none")
                    /\ helper' = FinishReturned
    /\ UNCHANGED <<Package, threads>>

\* tar_stream_reader.close from thread.join() on
ReaderCloseReturn ==
    /\ job.waiting = "wait" /\ stream.kind = "reader"
    /\ Joined(stream.t) /\ Exited(stream.p)
    /\ job' = Returned(job.call,
                       Let(job.call,
                           IF failed(stream.p) /\ ~stream.killed
                           THEN COF ELSE "none"))
    /\ UNCHANGED <<Package, procs, threads, stream, helper>>

\* checksum_helper.finish, up to gpg_proc.wait()
Finish ==
    /\ Due("finish")
    /\ IF HelperRuns
       THEN /\ procs' = [procs EXCEPT ![helper.p].stdin = "closed"]
            /\ job' = Waiting("finish", "finish")
            /\ helper' = helper
       ELSE /\ procs' = procs
            /\ job' = Returned("finish", "none")
            /\ helper' = FinishReturned
    /\ UNCHANGED <<Package, threads, stream>>

\* checksum_helper.finish from gpg_proc.wait() on; _check_gpg_status may
\* still refuse what gpg accepted
FinishReturn ==
    /\ job.waiting = "finish"
    /\ Exited(helper.p)
    /\ helper' = [helper EXCEPT !.finished = TRUE, !.returned = TRUE]
    /\ \E exc \in {"none", "GPGException", "InvalidSignature"} :
        /\ exc = "GPGException" <=>
              (procs[helper.p].rc # 0 /\ helper.gpg_operation = "SIGNING")
        /\ exc = "InvalidSignature" => helper.gpg_operation = "VERIFY"
        /\ exc = "none" => procs[helper.p].rc = 0
        /\ job' = Returned(job.call, exc)
    /\ UNCHANGED <<Package, procs, threads, stream>>

\* _record_checksum (build) and the digest comparison of _verify_binpkg:
\* hexdigest() of the hash objects of the helper
Hexdigest ==
    /\ \E f \in {"_record_checksum", "hexdigest"} :
        /\ Due(f)
        /\ job' = Returned(f, "none")
    /\ UNCHANGED <<Package, procs, threads, stream, helper>>

\* _add_signature: gpg_output of the helper is written as the ".sig" entry
AddSignature ==
    /\ Due("_add_signature")
    /\ job' = Returned("_add_signature",
                       IF helper.finished THEN "none" ELSE "GPGException")
    /\ UNCHANGED <<Package, procs, threads, stream, helper>>

\* tar_stream_writer._cmd_read_thread: returns at the end of the output; a
\* broken pipe is raised as CompressorOperationFailed unless killed
CmdReadThread ==
    /\ \E t \in 1..Len(threads) :
        /\ threads[t].name = "tar_stream_cmd_read"
        /\ threads[t].state = "running"
        /\ procs[threads[t].p].state = "exited"
        /\ \E broken \in BOOLEAN :
            /\ broken => procs[threads[t].p].rc # 0
            /\ threads' = [threads EXCEPT
                 ![t].state = IF broken THEN "raised" ELSE "returned",
                 ![t].exc = IF ~broken THEN "none"
                            ELSE IF stream.killed THEN "ValueError" ELSE COF]
    /\ UNCHANGED <<Package, procs, stream, helper, job>>

\* tar_stream_reader._write_thread: closes stdin at the end of the input; a
\* write to a program that exited is a broken pipe, a write to the stdin
\* that kill() closed is a ValueError, and both are passed over when killed
WriteThread ==
    /\ \E t \in 1..Len(threads) :
        LET p == threads[t].p
        IN  /\ threads[t].name = "tar_stream_stdin_writer"
            /\ threads[t].state = "running"
            /\ IF procs[p].state = "running" /\ procs[p].stdin = "open"
               THEN /\ procs' = [procs EXCEPT ![p].stdin = "closed"]
                    /\ threads' = [threads EXCEPT ![t].state = "returned"]
               ELSE /\ procs' = procs
                    /\ threads' = [threads EXCEPT
                         ![t].state = IF stream.killed THEN "returned"
                                      ELSE "raised",
                         ![t].exc = IF stream.killed THEN "none"
                                    ELSE IF procs[p].stdin = "closed"
                                    THEN "ValueError" ELSE COF]
    /\ UNCHANGED <<Package, stream, helper, job>>

InitStream ==
    InitInstance /\ root_dir = NoTree /\ metadata_bytes = 512 /\ meta = DefaultMeta

NextStream ==
    \/ StartOp
    \/ Propagate
    \/ RaiseMissingSignature
    \/ ChecksumHelper
    \/ TarStreamWriter
    \/ TarStreamReader
    \/ ProcExits
    \/ Write
    \/ Read
    \/ ExtractAll
    \/ ExceptAll
    \/ Kill
    \/ Close
    \/ WriterCloseReturn
    \/ ReaderCloseReturn
    \/ Finish
    \/ FinishReturn
    \/ Hexdigest
    \/ AddSignature
    \/ CmdReadThread
    \/ WriteThread

SpecStream == InitStream /\ [][NextStream]_vars

----------------------------------------------------------------------------
(* The order of the container entries and of the Manifest lines: a         *)
(* container at rest is repacked with two entries, or two lines of its      *)
(* Manifest, exchanged.                                                     *)

\* the sequence with the elements at i and j exchanged
Swap(s, i, j) == [s EXCEPT ![i] = s[j], ![j] = s[i]]

CanSwap == pc = "Sealed" /\ swaps < MaxSwaps

\* the file with these members, one exchange more
Swapped(members) ==
    /\ file' = [file EXCEPT !.members = members]
    /\ swaps' = swaps + 1
    /\ vres' = NoResult
    /\ UNCHANGED <<Settings, Streams, pipe, Reading, Other, checksums, pc, tampers>>

\* two neighbouring entries of the container change places
SwapMembers ==
    /\ CanSwap
    /\ \E i \in 1..(Len(file.members) - 1) :
        Swapped(Swap(file.members, i, i + 1))

\* two neighbouring lines of the Manifest change places; the signature of
\* the Manifest is left as it is, or made again over the new text with the
\* same key
SwapManifestLines ==
    /\ CanSwap /\ HasManifest
    /\ file.members[ManifestIndex(file.members)].data.t = "text"
    /\ \E i \in 1..(Len(ManifestLines) - 1) : \E resign \in BOOLEAN :
        /\ LET text == Text(Swap(ManifestLines, i, i + 1))
               sig(d) == IF resign /\ d.t = "sig" THEN Signature(text, d.v.key)
                         ELSE d
           IN  Swapped([k \in 1..Len(file.members) |->
                   IF file.members[k].name = ManifestName
                   THEN [file.members[k] EXCEPT !.data = text]
                   ELSE IF file.members[k].name = ManifestSigName
                   THEN [file.members[k] EXCEPT !.data = sig(@)]
                   ELSE file.members[k]])

\* one modification of the content comes before the exchanges
Unswapped == swaps = 0 /\ tampers = 0

\* the order of the entries does not depend on the compression nor on the
\* order of the hash functions: one of each
InitPermute ==
    Init /\ compression = "gzip" /\ libs = <<"BLAKE2B", "SHA512">>

NextPermute ==
    \/ WriteVersion
    \/ AddMetadata
    \/ WriteImage
    \/ AddManifest
    \/ ContainerClose
    \/ Unswapped /\ StripMembers
    \/ Unswapped /\ FlipByte
    \/ Unswapped /\ AddRecordedMember
    \/ SwapMembers
    \/ SwapManifestLines
    \/ Decompress

SpecPermute == InitPermute /\ [][NextPermute]_vars

----------------------------------------------------------------------------
(* The text of the Manifest: lines that _load_manifest cannot take.        *)

\* what a line of the Manifest is rewritten to: another first field, or
\* only its first k fields (none: an empty line)
LineVariants(line) ==
    (IF line = <<>> THEN {} ELSE {ReplaceAt(line, 1, <<"DATA">>)})
        \cup {SubSeq(line, 1, k) : k \in 0..Min({2, Len(line)})}

\* one line of the Manifest is rewritten
RewriteManifestLine ==
    /\ CanTamper /\ HasManifest
    /\ \E r \in 1..Len(ManifestLines) :
        \E line \in LineVariants(ManifestLines[r]) \ {ManifestLines[r]} :
            TamperManifest(ReplaceAt(ManifestLines, r, line))

NextManifest ==
    \/ WriteVersion
    \/ AddMetadata
    \/ WriteImage
    \/ AddManifest
    \/ ContainerClose
    \/ AlterManifestSize
    \/ DropManifestDigests
    \/ RewriteManifestLine
    \/ Decompress
    \/ UnpackMetadata

SpecManifest == Init /\ [][NextManifest]_vars

----------------------------------------------------------------------------
(* Reading the sub-archives of a container: which entry is taken for the   *)
(* metadata or the image, and which decompressor is run on it.             *)

MaxMembers == 3

\* the compression _extract_filename_compression returns beside the name:
\* "None" for ".tar", the key of ext_list for ".tar" and its extension
f_comp(name) ==
    LET b == basename(name)
    IN  IF Len(b) >= 2 /\ b[Len(b)] = ".tar" THEN "None"
        ELSE IF b[Len(b)] = ".gz" THEN "gzip" ELSE "xz"

\* gpkg._get_inner_tarinfo as a whole: the version marker is looked for
\* first; the entry f and its compression f_comp are returned, with a
\* warning when the entry is not under base_name
get_inner_tarinfo(members, file_name) ==
    LET i == _get_inner_tarinfo(members, file_name)
        raise(exc) == [op |-> "_get_inner_tarinfo", file_name |-> file_name,
                       exc |-> exc, f |-> 0, f_comp |-> "None",
                       cmd |-> "None", warned |-> FALSE]
    IN  IF ~In(gpkg_version, Names(members))
        THEN raise("InvalidBinaryPackageFormat")
        ELSE IF i = 0 THEN raise("FileNotFound")
        ELSE [op |-> "_get_inner_tarinfo", file_name |-> file_name,
              exc |-> "ok", f |-> i, f_comp |-> f_comp(members[i].name),
              cmd |-> "None",
              warned |-> dirname(members[i].name) # base_name]

\* entry names of containers that other tools and other instances wrote
InnerNames ==
    {gpkg_version,
     <<"pkg/", "image", ".tar", ".gz">>, <<"alt/", "image", ".tar", ".gz">>,
     <<"alt/", "image", ".tar", ".xz">>, <<"image", ".tar">>,
     <<"pkg/", "image", ".tar", ".gz", SIG>>, <<"pkg/", "imagex", ".tar">>,
     <<"pkg/", "metadata", ".tar">>}

RECURSIVE NameLists(_)
NameLists(k) ==
    IF k = 0 THEN {<<>>}
    ELSE LET L == NameLists(k - 1)
         IN  L \cup {Append(l, n) : l \in {x \in L : Len(x) = k - 1},
                                    n \in InnerNames}

\* a gpkg object whose file is still to be put in place
InitInner ==
    /\ InitInstance /\ root_dir = NoTree /\ metadata_bytes = 512
    /\ meta = DefaultMeta
    /\ compression = "gzip" /\ ~create_signature /\ ~request_signature
    /\ verify_signature /\ libs = <<"BLAKE2B", "SHA512">>

\* gpkg_file is a file that this object did not write
ForeignFile ==
    /\ file = NoFile /\ pc = "Init"
    /\ \E names \in NameLists(MaxMembers) :
        file' = [magic |-> Magic("USTAR_FORMAT"), typeflag |-> "0",
                 members |-> [i \in 1..Len(names) |->
                                 Member(names[i], 1, Blob("d0"))]]
    /\ UNCHANGED <<Settings, Streams, pipe, Reading, swaps, Other, checksums,
                   pc, tampers, vres>>

\* self._get_inner_tarinfo(container, file_name)
GetInnerTarinfo ==
    /\ file # NoFile
    /\ \E file_name \in {"metadata", "image"} :
        inner' = get_inner_tarinfo(file.members, file_name)
    /\ UNCHANGED <<Settings, Streams, pipe, instances, swaps, Other, checksums,
                   file, pc, tampers, vres>>

NextInner == ForeignFile \/ GetInnerTarinfo

SpecInner == InitInner /\ [][NextInner]_vars

----------------------------------------------------------------------------

(* A later gpkg object over the file: a container is written by one       *)
(* object and then read, updated or written again by another one with its *)
(* own settings.                                                           *)

MaxInstances == 2

\* gpkg._get_decompression_cmd(compression=None): without an argument, and
\* with the None that stands for an uncompressed entry, the compression of
\* the instance is taken; "None" is no command
_get_decompression_cmd(comp) ==
    LET c == IF comp = "None" THEN compression ELSE comp
    IN  IF c = "none" THEN "None" ELSE c

\* the sub-archive is read through the command: the tar archive comes out
\* iff the command is the one for the bytes of the entry
read_through(cmd, entry_comp) == IF cmd = entry_comp THEN "ok" ELSE "ReadError"

\* the part of a read operation after _verify_binpkg: the entry is looked
\* for and its bytes are put through the decompressor chosen
read_inner(op, members, file_name, comp_given) ==
    LET r == get_inner_tarinfo(members, file_name)
        cmd == _get_decompression_cmd(IF comp_given THEN r.f_comp ELSE "None")
    IN  IF r.exc # "ok" THEN [r EXCEPT !.op = op]
        ELSE [r EXCEPT !.op = op, !.cmd = cmd,
                       !.exc = read_through(cmd, r.f_comp)]

\* another gpkg object is made over the same file, with the settings of
\* its process; __init__ starts with no Manifest records
Reopen ==
    /\ pc = "Sealed" /\ Quiet /\ instances < MaxInstances
    /\ instances' = instances + 1
    /\ create_signature' \in BOOLEAN
    /\ request_signature' \in BOOLEAN
    /\ verify_signature' \in BOOLEAN
    /\ compression' \in Compressions
    /\ signing_key' \in (IF create_signature' THEN {"ultimate"} ELSE {"none"})
    /\ libs' = libs
    /\ checksums' = <<>>
    /\ update' = NoUpdate /\ inner' = NoInner /\ vres' = NoResult
    /\ UNCHANGED <<Streams, pipe, swaps, Tree, Remote, tmp_gpkg_file, file, pc,
                   tampers>>

\* compress or _quickpkg is called on an object whose file is a container:
\* the file is opened with mode "w" and gets the version member; the file
\* is no longer the one that update_metadata wrote
Recompress ==
    /\ pc = "Sealed" /\ Quiet
    /\ file' = [magic |-> Magic("USTAR_FORMAT"), typeflag |-> "0",
                members |-> <<Member(gpkg_version, 0, Blob("empty"))>>]
    /\ pc' = "WriteVersion"
    /\ vres' = NoResult /\ update' = NoUpdate
    /\ UNCHANGED <<Settings, Streams, pipe, Reading, swaps, Tree, Remote,
                   tmp_gpkg_file, checksums, tampers>>

\* _verify_binpkg and then the read of one sub-archive
ReadAfterVerify(op, file_name, metadata_only, comp_given) ==
    /\ pc = "Sealed" /\ Quiet
    /\ LET r == _verify_binpkg(file, request_signature, verify_signature,
                               metadata_only, libs)
       IN  /\ vres' = [exc |-> r.exc, msg |-> r.msg, tr |-> r.tr, at |-> r.at,
                       metadata_only |-> metadata_only]
           /\ inner' = IF r.exc = "ok"
                       THEN read_inner(op, file.members, file_name, comp_given)
                       ELSE [NoInner EXCEPT !.op = op, !.file_name = file_name,
                                            !.exc = r.exc]
    /\ UNCHANGED <<Settings, Streams, pipe, instances, swaps, Other, checksums,
                   file, pc, tampers>>

\* gpkg.unpack_metadata: self._get_decompression_cmd(metadata_comp)
UnpackMetadataRead == ReadAfterVerify("unpack_metadata", "metadata", TRUE, TRUE)

\* gpkg.decompress: self._get_decompression_cmd()
DecompressRead == ReadAfterVerify("decompress", "image", FALSE, FALSE)

\* gpkg.get_metadata_url: self._get_decompression_cmd(metadata_comp), after
\* the signature of the metadata was verified where that is done
GetMetadataUrlRead ==
    /\ pc = "Sealed" /\ Quiet
    /\ LET r == get_metadata_url(file, request_signature, verify_signature)
       IN  inner' = IF r.exc = "ok"
                    THEN read_inner("get_metadata_url", file.members,
                                    "metadata", TRUE)
                    ELSE [NoInner EXCEPT !.op = "get_metadata_url",
                                         !.file_name = "metadata",
                                         !.exc = r.exc]
    /\ UNCHANGED <<Settings, Streams, pipe, instances, swaps, Other, checksums,
                   file, pc, tampers, vres>>

InitReopen == Init /\ libs = <<"BLAKE2B", "SHA512">>

NextReopen ==
    \/ WriteVersion
    \/ AddMetadata
    \/ WriteImage
    \/ AddManifest
    \/ ContainerClose
    \/ Reopen
    \/ Recompress
    \/ UpdateVerify
    \/ UpdateAddMetadata
    \/ UpdateReuseImage
    \/ UpdateAddManifest
    \/ UpdateMove
    \/ UnpackMetadataRead
    \/ DecompressRead
    \/ GetMetadataUrlRead

SpecReopen == InitReopen /\ [][NextReopen]_vars

----------------------------------------------------------------------------

(* The bytes of a stream.  tar_stream_writer: the caller writes blocks, a   *)
(* compressor (if any) turns them into other blocks, the reader thread      *)
(* stores these in the container file and feeds them to the checksum        *)
(* helper, and close() patches the header.  A block is a record of its      *)
(* kind, the number of the written block it comes from, and its length;     *)
(* a pipe holds at most its capacity of blocks.                             *)

MaxBlocks == 2
MaxCap == 2

\* lengths of the blocks a caller writes
BlockLens == {300, 512}

\* the tar block, and the header of a USTAR or GNU entry with a short name
BLOCKSIZE == 512

RawBlock(i, n) == [k |-> "raw", i |-> i, n |-> n]

\* what the compressor writes for a block it read, and at the end of input
Z(block) == [k |-> "z", i |-> block.i, n |-> (block.n \div 2) + 6]
Trailer == [k |-> "end", i |-> 0, n |-> 8]

\* tarinfo.tobuf(tar_format, ...) of a tarinfo of that size
Header(size) == [k |-> "header", i |-> size, n |-> BLOCKSIZE]

\* b'\0' * padding_size
Padding(n) == [k |-> "pad", i |-> 0, n |-> n]

RECURSIVE NBytes(_)
NBytes(blocks) ==
    IF blocks = <<>> THEN 0 ELSE Head(blocks).n + NBytes(Tail(blocks))

RECURSIVE ZAll(_)
ZAll(blocks) ==
    IF blocks = <<>> THEN <<>> ELSE << Z(Head(blocks)) >> \o ZAll(Tail(blocks))

\* the data a caller can write: up to MaxBlocks blocks
RECURSIVE Sources(_)
Sources(k) ==
    IF k = 0 THEN { <<>> }
    ELSE Sources(k - 1)
            \cup { Append(s, RawBlock(k, n)) :
                      s \in { t \in Sources(k - 1) : Len(t) = k - 1 },
                      n \in BlockLens }

\* the state outside the stream
Outside == <<Settings, Streams, Reading, swaps, Other, checksums, file, pc,
             tampers, vres>>

InitPipe ==
    /\ InitInstance /\ root_dir = NoTree /\ metadata_bytes = 512
    /\ meta = DefaultMeta
    /\ compression = "gzip" /\ ~create_signature /\ ~request_signature
    /\ verify_signature /\ libs = <<"BLAKE2B", "SHA512">>

\* tar_stream_writer.__init__: the end of the container is the begin
\* position, the header is written with size 0, the compressor and the
\* reader thread are started if there is a command
OpenWriter ==
    /\ pipe = NoPipe
    /\ \E src \in Sources(MaxBlocks), cmd \in BOOLEAN,
          cap_in \in 1..MaxCap, cap_out \in 1..MaxCap,
          begin \in {BLOCKSIZE, 3 * BLOCKSIZE} :
        pipe' = [kind |-> "writer", cmd |-> cmd, cap_in |-> cap_in,
                 cap_out |-> cap_out, src |-> src, written |-> <<>>,
                 stdin |-> <<>>, stdin_open |-> cmd, held |-> <<>>,
                 emitted |-> <<>>, stdout |-> <<>>,
                 proc |-> IF cmd THEN "running" ELSE "none", rc |-> 0,
                 thread |-> IF cmd THEN "running" ELSE "none",
                 buffer |-> <<>>, stored |-> FALSE,
                 begin_position |-> begin, header_size |-> Header(0).n,
                 size |-> 0, fileobj |-> << Header(0) >>, sink |-> <<>>,
                 pc |-> "write", exc |-> "none", closed |-> FALSE,
                 members |-> 0, finished |-> FALSE, closes |-> 0]
    /\ UNCHANGED Outside

IsWriter == pipe.kind = "writer"

\* tar_stream_writer.write(data): to the stdin of the compressor, which
\* blocks while the pipe is full and fails once the compressor is gone;
\* without a compressor to the container and to the checksum helper
WriterWrite ==
    /\ IsWriter /\ pipe.pc = "write" /\ pipe.src # <<>>
    /\ LET data == Head(pipe.src)
       IN  IF pipe.cmd
           THEN IF pipe.proc = "exited"
                THEN pipe' = [pipe EXCEPT !.exc = "BrokenPipeError",
                                          !.pc = "close"]
                ELSE /\ Len(pipe.stdin) < pipe.cap_in
                     /\ pipe' = [pipe EXCEPT !.stdin = Append(@, data),
                                             !.src = Tail(@),
                                             !.written = Append(@, data)]
           ELSE pipe' = [pipe EXCEPT !.fileobj = Append(@, data),
                                     !.sink = Append(@, data),
                                     !.src = Tail(@),
                                     !.written = Append(@, data)]
    /\ UNCHANGED Outside

\* the with block of the caller ends: __exit__ calls close()
WriterExit ==
    /\ IsWriter /\ pipe.pc = "write" /\ pipe.src = <<>>
    /\ pipe' = [pipe EXCEPT !.pc = "close"]
    /\ UNCHANGED Outside

\* the compressor reads a block from its stdin
CompressorRead ==
    /\ IsWriter /\ pipe.proc = "running"
    /\ pipe.held = <<>> /\ pipe.stdin # <<>>
    /\ pipe' = [pipe EXCEPT !.held = << Head(pipe.stdin) >>,
                            !.stdin = Tail(@)]
    /\ UNCHANGED Outside

\* the compressor writes to its stdout, which blocks while the pipe is full
CompressorWrite ==
    /\ IsWriter /\ pipe.proc = "running"
    /\ pipe.held # <<>> /\ Len(pipe.stdout) < pipe.cap_out
    /\ pipe' = [pipe EXCEPT !.held = <<>>,
                            !.stdout = Append(@, Z(pipe.held[1])),
                            !.emitted = Append(@, Z(pipe.held[1]))]
    /\ UNCHANGED Outside

\* at the end of its input the compressor writes the end of the compressed
\* stream and exits with EX_OK
CompressorEnd ==
    /\ IsWriter /\ pipe.proc = "running"
    /\ pipe.held = <<>> /\ pipe.stdin = <<>> /\ ~pipe.stdin_open
    /\ Len(pipe.stdout) < pipe.cap_out
    /\ pipe' = [pipe EXCEPT !.stdout = Append(@, Trailer),
                            !.emitted = Append(@, Trailer),
                            !.proc = "exited", !.rc = EX_OK]
    /\ UNCHANGED Outside

\* the compressor exits with a failure
CompressorExit ==
    /\ IsWriter /\ pipe.proc = "running"
    /\ pipe' = [pipe EXCEPT !.proc = "exited", !.rc = 1]
    /\ UNCHANGED Outside

\* _cmd_read_thread: self.proc.stdout.read(HASHING_BLOCKSIZE), which at the
\* end of the output returns nothing, and the thread returns
ReadThreadRead ==
    /\ IsWriter /\ pipe.thread = "running" /\ pipe.buffer = <<>>
    /\ IF pipe.stdout # <<>>
       THEN pipe' = [pipe EXCEPT !.buffer = << Head(pipe.stdout) >>,
                                 !.stdout = Tail(@), !.stored = FALSE]
       ELSE /\ pipe.proc = "exited"
            /\ pipe' = [pipe EXCEPT !.thread = "returned"]
    /\ UNCHANGED Outside

\* _cmd_read_thread: self.container.fileobj.write(buffer)
ReadThreadStore ==
    /\ IsWriter /\ pipe.thread = "running"
    /\ pipe.buffer # <<>> /\ ~pipe.stored
    /\ pipe' = [pipe EXCEPT !.fileobj = Append(@, pipe.buffer[1]),
                            !.stored = TRUE]
    /\ UNCHANGED Outside

\* a thread that feeds the checksum helper only up to the end of the
\* compressed stream
ReadThreadUpdate_short ==
    /\ IsWriter /\ pipe.thread = "running"
    /\ pipe.buffer # <<>> /\ pipe.stored
    /\ pipe' = [pipe EXCEPT !.sink = IF pipe.buffer[1] = Trailer THEN @
                                     ELSE Append(@, pipe.buffer[1]),
                            !.buffer = <<>>, !.stored = FALSE]
    /\ UNCHANGED Outside

\* _cmd_read_thread: self.checksum_helper.update(buffer)
ReadThreadUpdate ==
    /\ IsWriter /\ pipe.thread = "running"
    /\ pipe.buffer # <<>> /\ pipe.stored
    /\ pipe' = [pipe EXCEPT !.sink = Append(@, pipe.buffer[1]),
                            !.buffer = <<>>, !.stored = FALSE]
    /\ UNCHANGED Outside

\* tar_stream_writer.close, up to the wait: self.proc.stdin.close()
WriterCloseStdin ==
    /\ IsWriter /\ pipe.pc = "close"
    /\ IF pipe.closed
       THEN pipe' = [pipe EXCEPT !.pc = "done", !.closes = @ + 1]
       ELSE pipe' = [pipe EXCEPT !.stdin_open = FALSE, !.pc = "wait"]
    /\ UNCHANGED Outside

\* a close() that goes on while the thread is alive
ThreadJoined_nowait == TRUE

\* "if self.read_thread.is_alive(): self.read_thread.join()" returned
ThreadJoined == pipe.thread # "running"

\* the size of the entry, the padding, the header written again at the
\* begin position, the entry appended to the members, checksum_helper.finish
Patched ==
    LET end_position == pipe.begin_position + NBytes(pipe.fileobj)
        file_size == end_position - pipe.begin_position - pipe.header_size
        remainder == file_size % BLOCKSIZE
        padded == IF remainder > 0
                  THEN Append(pipe.fileobj, Padding(BLOCKSIZE - remainder))
                  ELSE pipe.fileobj
    IN  [pipe EXCEPT !.size = file_size,
                     !.fileobj = [padded EXCEPT ![1] = Header(file_size)],
                     !.closed = TRUE, !.members = @ + 1,
                     !.finished = TRUE, !.pc = "done", !.closes = @ + 1]

\* tar_stream_writer.close, from the wait on: a compressor that did not
\* exit with EX_OK raises CompressorOperationFailed, else the thread is
\* joined and the entry is completed
WriterCloseEnd ==
    /\ IsWriter /\ pipe.pc = "wait"
    /\ IF pipe.cmd
       THEN /\ pipe.proc = "exited"
            /\ IF pipe.rc # EX_OK
               THEN pipe' = [pipe EXCEPT !.exc = COF, !.pc = "done",
                                         !.closes = @ + 1]
               ELSE /\ ThreadJoined
                    /\ pipe' = Patched
       ELSE pipe' = Patched
    /\ UNCHANGED Outside

\* __del__ of the writer calls close() once more
WriterDel ==
    /\ IsWriter /\ pipe.pc = "done" /\ pipe.closes = 1
    /\ pipe' = [pipe EXCEPT !.pc = "close"]
    /\ UNCHANGED Outside

NextWriter ==
    \/ OpenWriter
    \/ WriterWrite
    \/ WriterExit
    \/ CompressorRead
    \/ CompressorWrite
    \/ CompressorEnd
    \/ CompressorExit
    \/ ReadThreadRead
    \/ ReadThreadStore
    \/ ReadThreadUpdate
    \/ WriterCloseStdin
    \/ WriterCloseEnd
    \/ WriterDel

-----------------------------------------------------------------------------

SpecWriter == InitPipe /\ [][NextWriter]_vars

-----------------------------------------------------------------------------

(* tar_stream_reader with a decompressor: the feeder thread writes the      *)
(* blocks of the entry to the stdin of the decompressor, the caller reads   *)
(* its stdout, and close() joins the thread and waits for the program.      *)
(* The caller either reads up to the end of the stream before it closes, or *)
(* may close at any time before that.                                       *)

\* what the decompressor writes for a block it read: the written block
\* again, in two pieces, and nothing for the end of the compressed stream
D(block) ==
    IF block.k = "z"
    THEN << RawBlock(block.i, block.n - 6), RawBlock(block.i, block.n - 6) >>
    ELSE <<>>

RECURSIVE DAll(_)
DAll(blocks) ==
    IF blocks = <<>> THEN <<>> ELSE D(Head(blocks)) \o DAll(Tail(blocks))

\* tar_stream_reader.__init__ with cmd: the decompressor and the feeder
\* thread are started; fileobj is an entry that a writer stored
OpenReader ==
    /\ pipe = NoPipe
    /\ \E data \in Sources(MaxBlocks), cap_in \in 1..MaxCap,
          cap_out \in 1..MaxCap, mode \in {"drain", "early"} :
        pipe' = [kind |-> "reader", mode |-> mode, cap_in |-> cap_in,
                 cap_out |-> cap_out, data |-> data,
                 src |-> ZAll(data) \o << Trailer >>,
                 stdin |-> <<>>, stdin_open |-> TRUE, held |-> <<>>,
                 stdout |-> <<>>, proc |-> "running", rc |-> 0,
                 early |-> FALSE, thread |-> "running", got |-> <<>>,
                 pc |-> "read", exc |-> "none", closed |-> FALSE,
                 killed |-> FALSE]
    /\ UNCHANGED Outside

IsReader == pipe.kind = "reader"

\* _write_thread: a block of fileobj is written to the stdin of the
\* decompressor, which blocks while the pipe is full and raises
\* BrokenPipeError, hence CompressorOperationFailed, once the program is
\* gone; at the end of fileobj stdin is closed and the thread returns
FeederStep ==
    /\ IsReader /\ pipe.thread = "running"
    /\ IF pipe.src = <<>>
       THEN pipe' = [pipe EXCEPT !.stdin_open = FALSE, !.thread = "returned"]
       ELSE IF pipe.proc = "exited"
       THEN pipe' = [pipe EXCEPT !.thread = IF pipe.killed THEN "returned"
                                            ELSE "failed"]
       ELSE /\ Len(pipe.stdin) < pipe.cap_in
            /\ pipe' = [pipe EXCEPT !.stdin = Append(@, Head(pipe.src)),
                                    !.src = Tail(@)]
    /\ UNCHANGED Outside

\* the decompressor reads a block from its stdin
DecompressorRead ==
    /\ IsReader /\ pipe.proc = "running"
    /\ pipe.held = <<>> /\ pipe.stdin # <<>>
    /\ pipe' = [pipe EXCEPT !.held = D(Head(pipe.stdin)), !.stdin = Tail(@)]
    /\ UNCHANGED Outside

\* the decompressor writes to its stdout, which blocks while the pipe is full
DecompressorWrite ==
    /\ IsReader /\ pipe.proc = "running"
    /\ pipe.held # <<>> /\ Len(pipe.stdout) < pipe.cap_out
    /\ pipe' = [pipe EXCEPT !.held = Tail(@),
                            !.stdout = Append(@, Head(pipe.held))]
    /\ UNCHANGED Outside

\* at the end of its input the decompressor exits, with EX_OK or not
DecompressorEnd ==
    /\ IsReader /\ pipe.proc = "running"
    /\ pipe.held = <<>> /\ pipe.stdin = <<>> /\ ~pipe.stdin_open
    /\ \E rc \in {EX_OK, 1} :
        pipe' = [pipe EXCEPT !.proc = "exited", !.rc = rc]
    /\ UNCHANGED Outside

\* the decompressor gives up before the end of its input
DecompressorExit ==
    /\ IsReader /\ pipe.proc = "running"
    /\ pipe.stdin_open \/ pipe.stdin # <<>>
    /\ pipe' = [pipe EXCEPT !.proc = "exited", !.rc = 1, !.early = TRUE,
                            !.held = <<>>]
    /\ UNCHANGED Outside

\* a caller that reads only after the whole entry was written to the
\* decompressor
ReaderRead_after_feed ==
    /\ IsReader /\ pipe.pc = "read" /\ pipe.thread # "running"
    /\ IF pipe.stdout # <<>>
       THEN pipe' = [pipe EXCEPT !.got = Append(@, Head(pipe.stdout)),
                                 !.stdout = Tail(@)]
       ELSE /\ pipe.proc = "exited"
            /\ pipe' = [pipe EXCEPT !.pc = "close"]
    /\ UNCHANGED Outside

\* tar_stream_reader.read: self.read_io.read(bufsize), which blocks while
\* the pipe is empty and the program has its stdout open; nothing is
\* returned at the end of the stream, and the caller goes on to close()
ReaderRead ==
    /\ IsReader /\ pipe.pc = "read"
    /\ IF pipe.stdout # <<>>
       THEN pipe' = [pipe EXCEPT !.got = Append(@, Head(pipe.stdout)),
                                 !.stdout = Tail(@)]
       ELSE /\ pipe.proc = "exited"
            /\ pipe' = [pipe EXCEPT !.pc = "close"]
    /\ UNCHANGED Outside

\* a caller that does not read to the end of the stream leaves its with
\* block: __exit__ calls close()
ReaderLeave ==
    /\ IsReader /\ pipe.pc = "read" /\ pipe.mode = "early"
    /\ pipe' = [pipe EXCEPT !.pc = "close"]
    /\ UNCHANGED Outside

\* tar_stream_reader.close, up to the join: self.closed = True
ReaderClose ==
    /\ IsReader /\ pipe.pc = "close"
    /\ pipe' = [pipe EXCEPT !.closed = TRUE, !.pc = "join"]
    /\ UNCHANGED Outside

\* tar_stream_reader.close: self.thread.join() returned
ReaderJoin ==
    /\ IsReader /\ pipe.pc = "join"
    /\ pipe.thread # "running"
    /\ pipe' = [pipe EXCEPT !.pc = "wait"]
    /\ UNCHANGED Outside

\* tar_stream_reader.close, from self.proc.wait() on:
\* CompressorOperationFailed unless the program exited with EX_OK, and the
\* pipes are closed
ReaderWait ==
    /\ IsReader /\ pipe.pc = "wait"
    /\ pipe.proc = "exited"
    /\ pipe' = [pipe EXCEPT !.exc = IF pipe.rc # EX_OK /\ ~pipe.killed
                                    THEN COF ELSE "none",
                            !.stdout = <<>>, !.pc = "done"]
    /\ UNCHANGED Outside

\* the steps of the feeder thread, of the decompressor that goes on as long
\* as it can, and of the caller
Feeder == FeederStep
Decompressor == DecompressorRead \/ DecompressorWrite \/ DecompressorEnd
Caller == ReaderRead \/ ReaderLeave \/ ReaderClose \/ ReaderJoin \/ ReaderWait

NextReader ==
    \/ OpenReader
    \/ FeederStep
    \/ DecompressorRead
    \/ DecompressorWrite
    \/ DecompressorEnd
    \/ DecompressorExit
    \/ ReaderRead
    \/ ReaderLeave
    \/ ReaderClose
    \/ ReaderJoin
    \/ ReaderWait

SpecReader == InitPipe /\ [][NextReader]_vars

\* the thread, the program and the caller are scheduled: each goes on when
\* it is not blocked
SpecReaderLive ==
    /\ SpecReader
    /\ WF_vars(Feeder) /\ WF_vars(Decompressor) /\ WF_vars(Caller)

-----------------------------------------------------------------------------

(* Properties *)

Verified == vres.exc # "none"

SignatureObserved ==
    \E i \in 1..Len(file.members) : EndsWithSig(file.members[i].name)

VerifyCondition ==
    verify_signature /\ (request_signature \/ SignatureObserved)

HasMember(name) == In(name, Names(file.members))

\* C1: a run of _verify_binpkg starts a signature verification only if the
\* ignore flag is unset and (the request flag is set or a ".sig" member
\* exists); under that condition the Manifest and every hashed member have
\* their signature verified, and otherwise no signature is verified and no
\* signature member leads to MissingSignature or InvalidSignature.
C1_VerifyOnlyUnderCondition ==
    Verified =>
        /\ ~VerifyCondition =>
              /\ vres.tr.started = <<>>
              /\ vres.tr.gpg = <<>>
              /\ vres.exc # "InvalidSignature"
              /\ vres.exc = "MissingSignature" => vres.msg = "Manifest not found"
        /\ VerifyCondition =>
              /\ \A i \in 1..Len(vres.tr.hashed) :
                    In(vres.tr.hashed[i], vres.tr.started)
              /\ vres.tr.loaded => In(ManifestName, vres.tr.started)
              /\ Len(vres.tr.gpg) = Len(vres.tr.started)

\* a signed container read with the ignore flag set: nothing is verified
C1_Witness ==
    /\ Verified /\ ~verify_signature /\ request_signature
    /\ HasMember(ManifestSigName)
    /\ vres.exc = "ok" /\ Len(vres.tr.hashed) = 2


IsContent(name) ==
    ~EndsWithSig(name) /\ name # gpkg_version /\ name # ManifestName

\* C2: under the verify condition a container that lacks Manifest.sig is
\* rejected with MissingSignature (unless it is already rejected as an
\* invalid format), a member that reaches the signature test without its
\* ".sig" member is rejected with MissingSignature, and no container with an
\* unsigned hashed member is accepted.
C2_MissingSignature ==
    (Verified /\ VerifyCondition) =>
        /\ (~HasMember(ManifestSigName)
                /\ vres.exc # "InvalidBinaryPackageFormat")
              => vres.exc = "MissingSignature"
        /\ \A i \in 1..Len(vres.tr.reached) :
              ~HasMember(Append(vres.tr.reached[i], SIG))
                  => /\ vres.exc = "MissingSignature"
                     /\ vres.at = vres.tr.reached[i]
        /\ vres.exc = "ok" =>
              /\ HasMember(ManifestSigName)
              /\ \A i \in 1..Len(file.members) :
                    LET name == file.members[i].name
                    IN  (/\ IsContent(name)
                         /\ ~(vres.metadata_only
                                /\ StartsWithImage(basename(name))))
                            => HasMember(Append(name, SIG))

\* the request flag is unset, Manifest.sig is the only signature left and
\* the first sub-archive is rejected for its missing signature
C2_Witness ==
    /\ Verified /\ ~request_signature /\ verify_signature
    /\ \A i \in 1..Len(file.members) :
          EndsWithSig(file.members[i].name)
              => file.members[i].name = ManifestSigName
    /\ HasMember(ManifestSigName)
    /\ vres.exc = "MissingSignature" /\ vres.msg = "signature not found"
    /\ vres.tr.started = <<ManifestName>>


HasStatus(status, keywords) ==
    \E i \in 1..Len(status) :
        /\ Len(status[i]) >= 2
        /\ status[i][1] = GNUPG
        /\ status[i][2] \in keywords

\* C3: in verifying mode finish() accepts a signature iff the verify command
\* exits with success and its status output has a GOODSIG line and a
\* TRUST_ULTIMATE or TRUST_FULLY line; a signature that is not accepted makes
\* the verification fail with InvalidSignature.
C3_SignatureAccepted ==
    Verified =>
        \A i \in 1..Len(vres.tr.gpg) :
            LET run == vres.tr.gpg[i]
            IN  /\ run.accepted <=>
                      /\ run.rc = 0
                      /\ HasStatus(run.status, {"GOODSIG"})
                      /\ HasStatus(run.status, {"TRUST_ULTIMATE", "TRUST_FULLY"})
                /\ ~run.accepted => vres.exc = "InvalidSignature"

\* a signature whose check succeeds but whose signer is not trusted enough
C3_Witness ==
    /\ Verified /\ vres.exc = "InvalidSignature"
    /\ \E i \in 1..Len(vres.tr.gpg) :
          /\ vres.tr.gpg[i].rc = 0
          /\ HasStatus(vres.tr.gpg[i].status, {"GOODSIG"})
          /\ ~HasStatus(vres.tr.gpg[i].status, {"TRUST_ULTIMATE", "TRUST_FULLY"})
          /\ ~vres.tr.gpg[i].accepted


Unique(members) ==
    \A i, j \in 1..Len(members) : members[i].name = members[j].name => i = j

NonSignatures(members) == SelectSeq(members, LAMBDA e : ~EndsWithSig(e.name))

\* the names of the signature members in which two member lists differ
ChangedSignatures(old, new) ==
    {n \in SeqToSet(Names(old)) \cup SeqToSet(Names(new)) :
        /\ EndsWithSig(n)
        /\ \/ In(n, Names(old)) # In(n, Names(new))
           \/ getmember(old, n).data # getmember(new, n).data}

Subject(n) == SubSeq(n, 1, Len(n) - 1)

\* a step that changes nothing but signature members
SignaturesChange ==
    /\ pc = "Sealed" /\ file'.members # file.members
    /\ file'.magic = file.magic
    /\ NonSignatures(file'.members) = NonSignatures(file.members)
    /\ Unique(file.members) /\ Unique(file'.members)

Outcome(f, metadata_only) ==
    LET r == _verify_binpkg(f, request_signature, verify_signature,
                            metadata_only, libs)
    IN  <<r.exc, r.msg>>

SameOutcome ==
    \A metadata_only \in BOOLEAN :
        Outcome(file', metadata_only) = Outcome(file, metadata_only)

RecordedNames(members) ==
    IF ManifestIndex(members) = 0 THEN {}
    ELSE LET lines == members[ManifestIndex(members)].data.v
         IN  {lines[i][2] : i \in {j \in 1..Len(lines) : Len(lines[j]) >= 2}}

\* C4 as stated: with the ignore flag set, the outcome of verification is the
\* same for two containers that differ only in Manifest.sig and in ".sig"
\* members whose subject is present.
C4_AnySubject ==
    [][(/\ ~verify_signature
        /\ SignaturesChange
        /\ \A n \in ChangedSignatures(file.members, file'.members) :
              n = ManifestSigName \/ In(Subject(n), Names(file.members)))
            => SameOutcome]_vars

\* C4: with the ignore flag set, the outcome of verification is the same for
\* two containers that differ only in Manifest.sig and in ".sig" members of
\* sub-archives (the subject is present and is neither the version member
\* nor a signature) for which the Manifest holds no record.
C4_IgnoredSignatures ==
    [][(/\ ~verify_signature
        /\ SignaturesChange
        /\ \A n \in ChangedSignatures(file.members, file'.members) :
              \/ n = ManifestSigName
              \/ /\ In(Subject(n), Names(file.members))
                 /\ IsContent(Subject(n))
                 /\ n \notin RecordedNames(file.members))
            => SameOutcome]_vars

\* a signed container without its Manifest.sig is accepted under the ignore
\* flag
C4_Witness ==
    /\ Verified /\ ~verify_signature /\ request_signature /\ tampers = 1
    /\ ~HasMember(ManifestSigName)
    /\ \E i \in 1..Len(file.members) : EndsWithSig(file.members[i].name)
    /\ vres.exc = "ok"


\* file' is file with a change inside member i only, name and size kept
ChangeInside(i) ==
    /\ pc = "Sealed"
    /\ file'.magic = file.magic
    /\ Len(file'.members) = Len(file.members)
    /\ i \in 1..Len(file.members)
    /\ \A j \in (1..Len(file.members)) \ {i} : file'.members[j] = file.members[j]
    /\ file'.members[i].name = file.members[i].name
    /\ file'.members[i].size = file.members[i].size
    /\ file'.members[i].data # file.members[i].data

ImageByteChange ==
    \E i \in 1..Len(file.members) :
        /\ ChangeInside(i)
        /\ IsContent(file.members[i].name)
        /\ StartsWithImage(basename(file.members[i].name))
        /\ file.members[i].data.t = "blob" /\ file'.members[i].data.t = "blob"

\* field k of line r of the Manifest is the only thing changed
FieldChange(r, k) ==
    LET i == ManifestIndex(file.members)
    IN  /\ i # 0 /\ Len(file'.members) = Len(file.members)
        /\ file'.members[i].data # file.members[i].data
        /\ file.members[i].data.t = "text" /\ file'.members[i].data.t = "text"
        /\ ChangeInside(i)
        /\ LET old == file.members[i].data.v
               new == file'.members[i].data.v
           IN  /\ Len(new) = Len(old) /\ r \in 1..Len(old)
               /\ \A q \in (1..Len(old)) \ {r} : new[q] = old[q]
               /\ Len(new[r]) = Len(old[r]) /\ k \in 1..Len(old[r])
               /\ \A p \in (1..Len(old[r])) \ {k} : new[r][p] = old[r][p]
               /\ new[r][k] # old[r][k]
               /\ \/ k = 3
                  \/ k >= 5 /\ IsAlgorithm(old[r][k - 1])

\* line r of the Manifest is the record of a signature member
SignatureRecord(r) ==
    EndsWithSig(file.members[ManifestIndex(file.members)].data.v[r][2])

\* the new field reads as the old one: the same number, or the same digest
\* in another case
ValuePreserved(r, k) ==
    LET i == ManifestIndex(file.members)
        old == file.members[i].data.v[r][k]
        new == file'.members[i].data.v[r][k]
    IN  IF k = 3 THEN IsInt(old) /\ IsInt(new) /\ int(new) = int(old)
        ELSE lower(new) = lower(old)

Accepted(f) == Outcome(f, FALSE)[1] = "ok"

FieldPositions == (1..3) \X (1..7)

\* C5 as stated: a change of image bytes or of a size or digest field of the
\* Manifest of an accepted container makes decompress fail with
\* DigestException.
C5_AlwaysDigestException ==
    [][(/\ pc = "Sealed" /\ file'.members # file.members
        /\ \/ ImageByteChange
           \/ \E p \in FieldPositions : FieldChange(p[1], p[2])
        /\ Accepted(file))
            => Outcome(file', FALSE)[1] = "DigestException"]_vars

\* C5: for an accepted container, a change of image bytes (size kept) or of
\* the size field or a configured algorithm's digest in the Manifest record
\* of an entry that is not a signature makes decompress fail with InvalidSignature when signatures are verified,
\* and otherwise with DigestException unless the new field reads as the old
\* value (same number, same digest up to case), which leaves it accepted.
C5_TamperDetected ==
    [][(pc = "Sealed" /\ file'.members # file.members) =>
          LET e == Outcome(file', FALSE)[1]
          IN  /\ (ImageByteChange /\ Accepted(file)) =>
                    e = IF VerifyCondition THEN "InvalidSignature"
                        ELSE "DigestException"
              /\ \A p \in FieldPositions :
                    (/\ FieldChange(p[1], p[2]) /\ ~SignatureRecord(p[1])
                     /\ Accepted(file)) =>
                        e = IF VerifyCondition THEN "InvalidSignature"
                            ELSE IF ValuePreserved(p[1], p[2]) THEN "ok"
                            ELSE "DigestException"]_vars

\* the image bytes of a built container were changed, no signature is
\* verified and the digest comparison rejects the image
C5_Witness ==
    /\ Verified /\ ~vres.metadata_only /\ ~VerifyCondition /\ tampers = 1
    /\ HasManifest /\ ManifestLines = checksums
    /\ vres.exc = "DigestException" /\ vres.msg = "checksum mismatched"
    /\ StartsWithImage(basename(vres.at))


\* the digest loop ran for the hashed member f: its signature, if verified,
\* was accepted
DigestLoopRan(f) ==
    ~(vres.at = f /\ vres.exc \in {"InvalidSignature", "GPGException"})

DigestLoopPassed(f) ==
    ~(vres.at = f /\ vres.exc # "ok")

\* the configured algorithms that the record lists with a digest
Listed(manifest_record) ==
    {c \in SeqToSet(libs) :
        /\ Index(manifest_record, <<c>>) # 0
        /\ Index(manifest_record, <<c>>) < Len(manifest_record)}

Matching(manifest_record, data) ==
    {c \in Listed(manifest_record) :
        lower(hexdigest(c, data)) =
            lower(manifest_record[Index(manifest_record, <<c>>) + 1])}

\* C6 as stated: the digest check of a member passes when its record lists
\* at least one configured algorithm and every configured algorithm it lists
\* has the recomputed digest (absent ones are ignored), and a record that
\* lists no configured algorithm is rejected with DigestException.
C6_SubsetAccepted ==
    Verified =>
        \A i \in 1..Len(vres.tr.hashed) :
            LET f == vres.tr.hashed[i]
                manifest_record == FindRecord(_load_manifest(ManifestLinesOf(file)).manifest, f)
                data == getmember(file.members, f).data
            IN  DigestLoopRan(f) =>
                  /\ (/\ Listed(manifest_record) # {}
                      /\ Matching(manifest_record, data) = Listed(manifest_record))
                        => DigestLoopPassed(f)
                  /\ Listed(manifest_record) = {} =>
                        /\ vres.at = f /\ vres.exc = "DigestException"
                        /\ vres.msg = "no supported checksum found"


AcceptedAs(f, metadata_only) == Outcome(f, metadata_only)[1] = "ok"

\* file' is file without its member i
Removed(i) ==
    /\ pc = "Sealed" /\ file'.magic = file.magic
    /\ Len(file'.members) = Len(file.members) - 1
    /\ i \in 1..Len(file.members)
    /\ file'.members = Without(file.members, {i}, 1)

\* C7: removing a sub-archive from an accepted container while its Manifest
\* record stays makes verification fail with DigestException "Missing
\* files", and no accepted container has a Manifest record without a member.
C7_MissingFiles ==
    /\ [](vres.exc = "ok" =>
            \A name \in RecordedNames(file.members) : HasMember(name))
    /\ [][\A metadata_only \in BOOLEAN, i \in 1..Len(file.members) :
            (/\ Removed(i) /\ IsContent(file.members[i].name)
             /\ AcceptedAs(file, metadata_only)
             /\ file.members[i].name \in RecordedNames(file.members))
                => Outcome(file', metadata_only)
                       = <<"DigestException", "Missing files">>]_vars

\* the image was removed from a built container and its record is left over
C7_Witness ==
    /\ Verified /\ tampers = 1
    /\ HasManifest /\ ManifestLines = checksums
    /\ \E name \in RecordedNames(file.members) :
          StartsWithImage(basename(name)) /\ ~HasMember(name)
    /\ vres.exc = "DigestException" /\ vres.msg = "Missing files"

\* file' is file with one more member, of a name that file does not have and
\* the Manifest does not record
Added ==
    /\ pc = "Sealed" /\ file'.magic = file.magic
    /\ Len(file'.members) = Len(file.members) + 1
    /\ SubSeq(file'.members, 1, Len(file.members)) = file.members
    /\ ~In(file'.members[Len(file'.members)].name, Names(file.members))
    /\ file'.members[Len(file'.members)].name \notin RecordedNames(file.members)

AddedName == file'.members[Len(file'.members)].name

\* the verify condition once the member is added
VerifyConditionAfter ==
    verify_signature /\ (request_signature \/ SignatureObserved
                            \/ EndsWithSig(AddedName))

\* C8 as stated: adding a member without Manifest record to an accepted
\* container makes verification fail with "Unknown files exists".
C8_UnknownFiles ==
    [][\A metadata_only \in BOOLEAN :
          (Added /\ AcceptedAs(file, metadata_only))
              => Outcome(file', metadata_only)
                     = <<"DigestException", "Unknown files exists">>]_vars

\* C8: adding a member without Manifest record to an accepted container:
\* a member that is not a signature is rejected with DigestException
\* "checksum not found"; a signature member other than Manifest.sig whose
\* subject is not a sub-archive of the container is rejected with "Unknown
\* files exists", unless it is the first signature of a container read with
\* signatures verified on sight; the signature of a sub-archive or of the
\* Manifest, when signatures are not verified, leaves the container accepted.
C8_ExtraMember ==
    [][\A metadata_only \in BOOLEAN :
          (Added /\ AcceptedAs(file, metadata_only)) =>
              LET o == Outcome(file', metadata_only)
                  content_signature ==
                      \/ AddedName = ManifestSigName
                      \/ /\ IsContent(Subject(AddedName))
                         /\ In(Subject(AddedName), Names(file.members))
              IN  /\ ~EndsWithSig(AddedName)
                        => o = <<"DigestException", "checksum not found">>
                  /\ (/\ EndsWithSig(AddedName) /\ ~content_signature
                      /\ (VerifyConditionAfter => VerifyCondition))
                        => o = <<"DigestException", "Unknown files exists">>
                  /\ (/\ EndsWithSig(AddedName) /\ content_signature
                      /\ ~VerifyConditionAfter)
                        => o[1] = "ok"]_vars

\* a member that is not a signature was added to a built container and the
\* loop finds no record for it
C8_Witness ==
    /\ Verified /\ tampers = 1
    /\ HasMember(<<base_name, "extra">>)
    /\ HasManifest /\ ManifestLines = checksums
    /\ vres.exc = "DigestException" /\ vres.msg = "checksum not found"
    /\ vres.at = <<base_name, "extra">>

\* C9: a file of unknown tar format, without the gpkg-1 member or with two
\* members of one name is rejected with InvalidBinaryPackageFormat before
\* the Manifest is loaded and before any signature verification is started.
C9_InvalidFormat ==
    (/\ Verified
     /\ \/ file.magic \notin {Magic("USTAR_FORMAT"), Magic("GNU_FORMAT")}
        \/ ~HasMember(gpkg_version)
        \/ ~Unique(file.members))
        => /\ vres.exc = "InvalidBinaryPackageFormat"
           /\ ~vres.tr.loaded
           /\ vres.tr.started = <<>> /\ vres.tr.gpg = <<>>
           /\ vres.tr.reached = <<>> /\ vres.tr.hashed = <<>>

\* a signed container read with signatures verified is rejected for a
\* duplicated member
C9_Witness ==
    /\ Verified /\ VerifyCondition /\ HasMember(ManifestSigName)
    /\ ~Unique(file.members) /\ HasMember(gpkg_version)
    /\ vres.exc = "InvalidBinaryPackageFormat"
    /\ vres.msg = "Duplicate file exist"

Optional(name) == IF create_signature THEN <<name, Append(name, SIG)>>
                  ELSE <<name>>

\* the members of a finished build
ExpectedNames ==
    <<gpkg_version>>
        \o Optional(_create_tarinfo_name(compression, "metadata"))
        \o Optional(_create_tarinfo_name(compression, "image"))
        \o Optional(ManifestName)

StepsDone ==
    CASE pc = "Init" -> 0 [] pc = "WriteVersion" -> 1
      [] pc = "WriteMetadata" -> 2 [] pc = "WriteImage" -> 3 [] OTHER -> 4

ExpectedLen ==
    IF StepsDone = 0 THEN 0
    ELSE 1 + (StepsDone - 1) * (IF create_signature THEN 2 ELSE 1)

\* C10: a container built by compress holds, in this order, gpkg-1 with
\* size 0, the metadata sub-archive, the image sub-archive and the Manifest,
\* each of the last three directly followed by its signature iff
\* create_signature is set; during the build the members written so far are
\* the corresponding prefix.
C10_BuildOrder ==
    (tampers = 0 /\ pc # "Failed") =>
        /\ Names(file.members) = SubSeq(ExpectedNames, 1, ExpectedLen)
        /\ pc # "Init" => file.members[1].size = 0
        /\ pc = "Sealed" => Names(file.members) = ExpectedNames
        /\ \A i \in 1..Len(file.members) :
              EndsWithSig(file.members[i].name) =>
                  /\ create_signature /\ i > 1
                  /\ file.members[i].name = Append(file.members[i - 1].name, SIG)

\* a finished build with signatures
C10_Witness ==
    /\ pc = "Sealed" /\ tampers = 0 /\ create_signature
    /\ Len(file.members) = 7
    /\ file.members[7].name = ManifestSigName


\* C11 as stated: the file left by a build that failed before its last
\* member was written is rejected by _verify_binpkg under the flags of the
\* instance.
C11_FailedBuildRejected ==
    (pc = "Failed" /\ Verified) => vres.exc # "ok"


\* C12 as stated: for every source tree and compression, compress succeeds,
\* a following decompress of the same instance succeeds, and the extracted
\* tree equals the source tree in names, types, contents and link targets.
C12_RoundTrip ==
    /\ pc # "Failed"
    /\ Verified =>
          /\ vres.exc = "ok" /\ decompress_dir.done
          /\ Canonical(decompress_dir.tree) = Canonical(root_dir)

\* what holds of the code: whenever decompress succeeds, the extracted tree
\* equals the source tree
ExtractedEqualsSource ==
    (Verified /\ vres.exc = "ok") =>
        /\ decompress_dir.done
        /\ Canonical(decompress_dir.tree) = Canonical(root_dir)


\* a step of _verify_binpkg: a result is recorded, nothing of the build or of
\* the modifications moves
VerifyStep ==
    /\ Verified' /\ pc' = pc /\ tampers' = tampers

ImageName == _create_tarinfo_name(compression, "image")

\* base name begins with the letters "image"
ImagePrefixed(n) ==
    Len(n) > 1 /\ n[1] \in DirParts /\ n[2] \in {"image", "imagex"}

ContentNames ==
    {file.members[i].name : i \in {j \in 1..Len(file.members) :
                                      IsContent(file.members[j].name)}}

RecordsOf(f) == _load_manifest(getmember(f.members, ManifestName).data).manifest

MetadataOnlyAccepted == vres.exc = "ok" /\ vres.metadata_only

\* an accepted metadata-only run skipped exactly the members of Skipped: each
\* of them has a record of its size and was neither hashed nor
\* signature-checked, every other member was hashed, and signature-checked
\* when the verify condition holds
SkippedExactly(Skipped) ==
    \A n \in ContentNames :
        /\ int(FindRecord(RecordsOf(file), n)[3]) = getmember(file.members, n).size
        /\ In(n, vres.tr.hashed) <=> n \notin Skipped
        /\ In(n, vres.tr.started) <=>
              /\ n \notin Skipped
              /\ verify_condition(request_signature, SignatureObserved,
                                  verify_signature)

\* a metadata-only run fails at a skipped member only for its missing record
\* or its size
SkippedChecks ==
    (Verified /\ vres.metadata_only /\ vres.exc # "ok"
        /\ ImagePrefixed(vres.at)) =>
        /\ vres.exc = "DigestException"
        /\ vres.msg \in {"checksum not found", "file size mismatched"}

Stats == _check_pre_image_files(root_dir)

FormatIf(extended) == IF extended THEN "GNU_FORMAT" ELSE "USTAR_FORMAT"

\* C15: once compress has opened its archives, the container is GNU iff the
\* total size is at least 8,000,000,000 bytes, the image sub-archive is GNU
\* iff the largest file is at least that big or the longest path exceeds 200
\* bytes, and the metadata sub-archive is USTAR; USTAR otherwise.
C15_FormatFromStats ==
    pc # "Init" =>
        /\ file.magic = Magic(FormatIf(Stats.image_total_size >= HugeSize))
        /\ image.tar_format =
              FormatIf(\/ Stats.image_max_file_size >= HugeSize
                       \/ Stats.image_max_path_length > 200)
        /\ metadata.tar_format = "USTAR_FORMAT"

\* small files under a path of 201 bytes: GNU image in a USTAR container
C15_Witness ==
    /\ pc = "Sealed" /\ Stats.image_max_path_length = 201
    /\ Stats.image_total_size < HugeSize
    /\ image.tar_format = "GNU_FORMAT" /\ _get_tar_format(file) = "USTAR_FORMAT"
    /\ metadata.tar_format = "USTAR_FORMAT"


\* update_metadata has replaced the container
Updated == update.pc = "Moved"

MetadataName == _create_tarinfo_name(compression, "metadata")

ImageSigName == Append(ImageName, SIG)

OldHasImageSig == In(ImageSigName, Names(update.container_old.members))

\* the names update_metadata is to write, in order
UpdatedNames ==
    <<gpkg_version, MetadataName>>
        \o (IF create_signature THEN <<Append(MetadataName, SIG)>> ELSE <<>>)
        \o <<ImageName>>
        \o (IF OldHasImageSig THEN <<ImageSigName>> ELSE <<>>)
        \o <<ManifestName>>
        \o (IF create_signature THEN <<ManifestSigName>> ELSE <<>>)

\* C16: after update_metadata has succeeded, the container holds in order
\* the version marker, the metadata sub-archive built from the new metadata
\* (with its signature when the instance signs), the image member of the old
\* container and, if the old one had it, its signature member, both
\* unchanged, and a new Manifest (with its signature when the instance
\* signs) whose image record is the one of the old Manifest; the record list
\* of the instance is empty after the initial verification and holds the
\* records of the new Manifest at the end.
C16_UpdatedContainer ==
    /\ update.pc = "WriteVersion" => checksums = <<>>
    /\ Updated =>
          LET old == update.container_old
          IN  /\ Names(file.members) = UpdatedNames
              /\ getmember(file.members, MetadataName).data = Blob(update.metadata)
              /\ getmember(file.members, ImageName)
                    = getmember(old.members, ImageName)
              /\ OldHasImageSig =>
                    getmember(file.members, ImageSigName)
                        = getmember(old.members, ImageSigName)
              /\ FindRecord(RecordsOf(file), ImageName) # <<>>
              /\ FindRecord(RecordsOf(file), ImageName)
                    = FindRecord(RecordsOf(old), ImageName)
              /\ ManifestLinesOf(file) = Text(checksums)
              /\ Len(checksums) = 2
              /\ file.magic = old.magic

\* the metadata of a signed container was replaced by other metadata
C16_Witness ==
    /\ Updated /\ OldHasImageSig
    /\ getmember(update.container_old.members, MetadataName).data
          # Blob(update.metadata)
    /\ getmember(file.members, MetadataName).data = Blob(update.metadata)


\* update_metadata is between its initial verification and its rename
Updating ==
    update.pc \in {"WriteVersion", "WriteMetadata", "WriteImage", "WriteManifest"}

\* the step shutil.move of update_metadata
MoveStep == update.pc = "WriteManifest" /\ update'.pc = "Moved"

\* C17: while update_metadata runs, the file at the container path is the
\* one it found; every step of it but the last writes at most the temporary
\* file, the last one puts the temporary file in the container's place, and
\* a call that fails leaves the container as it was before the call.
C17_OnlyTemporaryFile ==
    /\ [](Updating => file = update.container_old /\ tmp_gpkg_file # NoFile)
    /\ [][(update' # update /\ ~MoveStep) => file' = file]_vars
    /\ [][MoveStep => (file' = tmp_gpkg_file /\ tmp_gpkg_file' = NoFile)]_vars
    /\ [][(update' # update /\ update'.pc = "Failed") =>
              (file' = file /\ file' = update'.container_old)]_vars

\* a call failed after the metadata was written to the temporary file
C17_Witness ==
    /\ update.pc = "Failed" /\ vres.exc = "ok"
    /\ tmp_gpkg_file # NoFile /\ Len(tmp_gpkg_file.members) >= 2
    /\ file = update.container_old /\ file # tmp_gpkg_file


\* a step of get_metadata_url that gave a new outcome
UrlStep == url' # url

MetadataSigName == Append(MetadataName, SIG)

\* the container on the server has the metadata member and its signature
MetadataSigned ==
    /\ In(MetadataName, Names(file.members))
    /\ In(MetadataSigName, Names(file.members))

MetadataSigGood ==
    LET run == gpg_verify(getmember(file.members, MetadataSigName).data,
                          getmember(file.members, MetadataName).data)
    IN  finish(VERIFY, run.rc, run.status) = "ok"

\* C18 as stated: when the metadata signature is in the fetched prefix and
\* the ignore flag is unset, get_metadata_url verifies it before it
\* decompresses and parses; a signature that does not verify gives
\* InvalidSignature and no metadata.
C18_SignatureVerified ==
    [][(UrlStep /\ MetadataSigned /\ verify_signature
          /\ In(gpkg_version, Names(file.members))) =>
          IF MetadataSigGood
          THEN url'.steps = <<"verify", "decompress", "parse">>
          ELSE url'.exc = "InvalidSignature" /\ url'.metadata = "none"]_vars

\* C19 as stated: with the request flag set and the ignore flag unset,
\* get_metadata_url gives MissingSignature and no metadata for a container
\* without metadata signature.
C19_MissingSignature ==
    [][(UrlStep /\ request_signature /\ verify_signature
          /\ In(gpkg_version, Names(file.members))
          /\ In(MetadataName, Names(file.members))
          /\ ~In(MetadataSigName, Names(file.members))) =>
          (url'.exc = "MissingSignature" /\ url'.metadata = "none")]_vars

\* the end offset: data offset of the metadata member + its size + 10240,
\* moved up to the next multiple of 512 above it
EndOffset ==
    LET i == Index(Names(file.members), MetadataName)
        end == offset_data(file.members, i) + metadata_bytes + 10240
    IN  CHOOSE e \in (end + 1)..(end + 512) : e % 512 = 0

\* C20: get_metadata_url asks for bytes=0-51200 and then, only when the end
\* offset (a value on a 512-byte boundary is moved up by 512) exceeds 51200
\* and not 10,000,000, for bytes=51201-<end offset>; beyond 10,000,000 it
\* raises the invalid-format failure after the first request; no request
\* reaches past 10,000,000.
C20_RangeRequests ==
    [][(UrlStep /\ In(gpkg_version, Names(file.members))
          /\ In(MetadataName, Names(file.members))) =>
          /\ url'.requests[1] = Range(0, 51200)
          /\ Len(url'.requests) =
                IF EndOffset > 51200 /\ EndOffset <= 10000000 THEN 2 ELSE 1
          /\ Len(url'.requests) = 2 =>
                url'.requests[2] = Range(51201, EndOffset)
          /\ EndOffset > 10000000 =>
                url'.exc = "InvalidBinaryPackageFormat"
          /\ \A k \in 1..Len(url'.requests) :
                url'.requests[k].last <= 10000000]_vars

\* the sum lies on 51200: a second request for 512 bytes
C20_Witness ==
    /\ metadata_bytes = 39936 /\ url.exc = "ok"
    /\ url.requests = <<Range(0, 51200), Range(51201, 51712)>>

\* the sum lies on the last boundary below the cap: no second request
PrefixTooLarge ==
    /\ metadata_bytes = 9988608
    /\ url.exc = "InvalidBinaryPackageFormat"
    /\ url.requests = <<Range(0, 51200)>>

\* the bytes of a mapping handed to compress: name -> UTF-8 bytes
Bytes(metadata_dict) == read_all(m_data(metadata_dict))

\* C21 as stated: for a container as compress built it, get_metadata_url
\* with want=None returns the mapping handed to compress (same names, same
\* bytes), and the local get_metadata() returns the same.
C21_UrlEqualsLocal ==
    (pc = "Sealed" /\ tampers = 0 /\ url.exc # "none" /\ url.want = WantAll) =>
        /\ url.exc = "ok"
        /\ url.returned = Bytes(meta)
        /\ get_metadata(file, request_signature, verify_signature, libs,
                        WantAll)
             = [exc |-> "ok", want |-> WantAll, returned |-> url.returned]

\* the entries of a mapping, in its order, whose name is wanted
Wanted(mapping, names) ==
    LET keep == {i \in 1..Len(mapping) : In(mapping[i].name, names)}
        RECURSIVE pick(_)
        pick(i) == IF i > Len(mapping) THEN <<>>
                   ELSE (IF i \in keep THEN <<mapping[i]>> ELSE <<>>)
                            \o pick(i + 1)
    IN  pick(1)

\* C22 as stated: get_metadata_url(url, want) with a list of names returns
\* exactly the metadata files whose name is in the list, each with its
\* bytes, and all of them when want is None.
C22_WantedFiles ==
    (pc = "Sealed" /\ tampers = 0 /\ url.exc = "ok") =>
        url.returned = IF url.want.kind = "None" THEN Bytes(meta)
                       ELSE Wanted(Bytes(meta), url.want.names)

\* no metadata member of the served container is under the base name of
\* the instance, one is under another
BaseNameMismatch ==
    /\ \A i \in 1..Len(file.members) :
          _extract_filename_compression(file.members[i].name) = <<"metadata">>
              => dirname(file.members[i].name) # base_name
    /\ \E i \in 1..Len(file.members) :
          _extract_filename_compression(file.members[i].name) = <<"metadata">>

\* C23 as stated: get_metadata_url raises for a remote container whose
\* metadata entry is under a base name other than the one the instance
\* expects, and returns nothing.
C23_BaseNameRejected ==
    [][(UrlStep /\ BaseNameMismatch) =>
          (url'.exc \notin {"ok", "none"} /\ url'.returned = <<>>)]_vars

\* kill() was called on a stream whose external program was running
KilledActive ==
    /\ stream.killed
    /\ (IF stream.p = 0 THEN FALSE ELSE procs[stream.p].rc = -9)

\* C24 as stated: after kill() on a writer or reader with an active external
\* program, the program is terminated, and neither kill() nor the thread nor
\* a later close() reports CompressorOperationFailed.
C24_KillSilent ==
    KilledActive =>
        /\ procs[stream.p].state = "exited"
        /\ job.call \in {"kill", "close", "__exit__"} => job.raised # COF
        /\ threads[stream.t].exc # COF

\* a close() call of a stream that was not closed and not killed returns;
\* the __exit__ of a writer is its close()
CloseReturns ==
    /\ job.waiting = "wait" /\ job'.waiting # "wait"
    /\ ~stream.killed
    /\ job.call = "close" \/ (job.call = "__exit__" /\ stream.kind = "writer")

\* C25: when kill() was not called, close() raises
\* CompressorOperationFailed exactly when the exit status of the external
\* program is not success; a writer raises it before the header is patched
\* and before the entry is appended to the members of the container.
C25_CloseReports ==
    [][CloseReturns =>
          /\ job'.raised = COF <=>
                (IF stream.p = 0 THEN FALSE ELSE procs[stream.p].rc # 0)
          /\ (stream.kind = "writer" /\ job'.raised = COF) =>
                (stream'.header = "unsized" /\ ~stream'.appended
                    /\ ~stream'.closed)]_vars

\* the close() of a writer failed: header without size, entry not appended
C25_Witness ==
    /\ stream.kind = "writer" /\ ~stream.killed
    /\ job.call \in {"close", "__exit__"} /\ job.raised = COF
    /\ procs[stream.p].rc = 1
    /\ stream.header = "unsized" /\ ~stream.appended

\* decompress is over and its decompressor had exited by itself with failure
DecompressorFailed ==
    /\ job.op = "decompress" /\ job.calls = <<>> /\ job.waiting = "none"
    /\ (IF stream.p = 0 THEN FALSE ELSE procs[stream.p].rc = 1)

\* C26 as stated: if the external decompressor exits with failure during
\* decompress(), decompress() fails with CompressorOperationFailed and does
\* not return normally.
C26_DecompressFails == DecompressorFailed => job.exc = COF

\* the programs of these roles that have not exited
Running(roles) ==
    {p \in 1..Len(procs) : procs[p].state = "running" /\ procs[p].role \in roles}

Compressors == {"compressor", "decompressor"}
Signers == {"signer", "verifier"}

\* the running threads that feed the program of the stream in use
Feeders ==
    {t \in 1..Len(threads) :
        /\ threads[t].state = "running"
        /\ threads[t].name = "tar_stream_stdin_writer"
        /\ threads[t].p = stream.p}

\* C27: during an operation of gpkg at most one compressor or decompressor
\* and at most one signer or verifier are alive, a reader has at most one
\* feeder thread, and the programs alive belong to one entry: those of an
\* entry have exited before a program of the next entry is started.
C27_ProcessBound ==
    job.op \in Operations =>
        /\ Cardinality(Running(Compressors)) <= 1
        /\ Cardinality(Running(Signers)) <= 1
        /\ Cardinality(Feeders) <= 1
        /\ \A p, q \in Running(Compressors \cup Signers) :
              procs[p].entry = procs[q].entry

\* compress at the image entry: its compressor and its signer are both
\* alive, the two programs of the metadata entry have exited
C27_Witness ==
    /\ job.op = "compress"
    /\ Cardinality(Running(Compressors \cup Signers)) = 2
    /\ \A p \in Running(Compressors \cup Signers) : procs[p].entry = "image"
    /\ Cardinality({p \in 1..Len(procs) : procs[p].entry = "metadata"
                                           /\ procs[p].state = "exited"}) = 2

\* two entries or two Manifest lines were exchanged
SwapStep == swaps' = swaps + 1

\* full and metadata-only verification accept after the step what they
\* accepted before it
SameVerdict ==
    \A metadata_only \in BOOLEAN :
        AcceptedAs(file', metadata_only) <=> AcceptedAs(file, metadata_only)

\* C28 as stated: the verdict of verify is the same after any permutation
\* of the Manifest lines or of the container entries.
C28_AnyPermutation == [][SwapStep => SameVerdict]_vars

\* the Manifest signature of f is looked at by _verify_binpkg
ManifestSigChecked(f) ==
    /\ In(ManifestSigName, Names(f.members))
    /\ verify_condition(request_signature,
                        \E i \in 1..Len(f.members) : EndsWithSig(f.members[i].name),
                        verify_signature)

\* the Manifest signature of f is a signature over the Manifest of f
ManifestSigFits(f) ==
    LET sig == getmember(f.members, ManifestSigName).data
    IN  IF In(ManifestName, Names(f.members)) /\ sig.t = "sig"
        THEN SameData(sig.v.signed, ManifestLinesOf(f))
        ELSE FALSE

\* C28, amended: a permutation of the container entries never changes the
\* verdict, and a permutation of the Manifest lines does not change it as
\* long as the Manifest signature is not checked or fits the Manifest
\* before and after; lines permuted under a signature that was made for
\* the old text are rejected.
C28_PermutationSigned ==
    [][SwapStep =>
          IF ManifestSigChecked(file')
             /\ (ManifestSigFits(file') # ManifestSigFits(file))
          THEN ~ManifestSigFits(file') => ~Accepted(file')
          ELSE SameVerdict]_vars

\* an accepted container whose entries and Manifest lines are not in the
\* order of the build
C28_Witness ==
    /\ swaps > 0 /\ vres.exc = "ok"
    /\ file.members[1].name # gpkg_version
    /\ ManifestLines[1][2] = ImageName

\* the exceptions of portage.exception that gpkg raises
Typed ==
    {"InvalidBinaryPackageFormat", "InvalidCompressionMethod",
     "CompressorNotFound", "CompressorOperationFailed", "MissingSignature",
     "InvalidSignature", "DigestException", "GPGException", "FileNotFound",
     "CommandNotFound"}

\* C29 as stated: whatever the entries, the Manifest text and the flags,
\* verify ends with success or with one of the typed failures, never with
\* an untyped runtime error.
C29_TypedFailure == vres.exc \in Typed \cup {"none", "ok"}

\* a line whose first field is not MANIFEST or whose size is not a number
Unparseable(line) ==
    /\ line # <<>>
    /\ \/ line[1] # MANIFEST
       \/ (IF Len(line) >= 3 THEN ~IsInt(line[3]) ELSE FALSE)

\* a MANIFEST line without name or without size
Short(line) == line # <<>> /\ line[1] = MANIFEST /\ Len(line) < 3

\* the container was verified as it is now, and its Manifest has an
\* unparseable line
UnparseableVerified ==
    /\ vres.exc # "none" /\ HasManifest
    /\ \E r \in 1..Len(ManifestLines) : Unparseable(ManifestLines[r])

ParseFailures ==
    {"invalied Manifest", "Manifest invalied file size",
     "Manifest duplicate file exists"}

ImageEntrySize ==
    Sum([i \in 1..Len(image.members) |-> image.members[i].size])

\* C37: once compress has written its entries, the header of the metadata
\* entry and the header of the image entry are encoded in the format of the
\* outer container, and an image entry of 8,000,000,000 bytes or more has a
\* GNU header.
C37_HeaderInContainerFormat ==
    pc = "Sealed" =>
        /\ metadata.header = _get_tar_format(file)
        /\ image.header = _get_tar_format(file)
        /\ ImageEntrySize >= HugeSize => image.header = "GNU_FORMAT"


\* the entry name is the requested sub-archive name with ".tar" and
\* possibly the extension of a compression
Stem(name, file_name) ==
    basename(name) \in {<<file_name, ".tar">>, <<file_name, ".tar", ".gz">>,
                        <<file_name, ".tar", ".xz">>}

\* the entries of the requested name, and those of them under base_name
Named == {i \in 1..Len(file.members) :
             Stem(file.members[i].name, inner.file_name)}
Based == {i \in Named : Len(file.members[i].name) > 0
                            /\ file.members[i].name[1] = base_name}

\* C35: _get_inner_tarinfo rejects a container without the version marker;
\* else it returns an entry of the requested name under base_name when there
\* is one, without a warning; else the first entry of that name, with a
\* warning; else it raises FileNotFound.
C35_InnerTarinfo ==
    inner.op = "_get_inner_tarinfo" =>
        IF ~HasMember(gpkg_version)
        THEN inner.exc = "InvalidBinaryPackageFormat" /\ inner.f = 0
        ELSE IF Based # {}
        THEN inner.exc = "ok" /\ inner.f \in Based /\ ~inner.warned
        ELSE IF Named # {}
        THEN /\ inner.exc = "ok" /\ inner.warned
             /\ inner.f \in Named /\ \A i \in Named : inner.f <= i
        ELSE inner.exc = "FileNotFound"

\* the entry under base_name is returned although one of another directory
\* comes first
C35_Witness ==
    /\ inner.op = "_get_inner_tarinfo" /\ inner.exc = "ok"
    /\ inner.f \in Based
    /\ \E i \in Named \ Based : i < inner.f


\* a read operation found its sub-archive entry
EntryRead == inner.op \in {"unpack_metadata", "get_metadata_url", "decompress"}
                 /\ inner.f # 0

\* the compression that the suffix of an entry name stands for
SuffixCompression(name) ==
    CASE name[Len(name)] = ".gz" -> "gzip"
      [] name[Len(name)] = ".xz" -> "xz"
      [] OTHER -> "None"

\* C39: unpack_metadata, get_metadata_url and decompress run the decompressor
\* that the suffix of the entry found stands for (none for an uncompressed
\* entry), whatever compression the instance is configured with.
C39_DecompressorFromEntry ==
    EntryRead => inner.cmd = SuffixCompression(file.members[inner.f].name)


\* C36: the Manifest of a container that a build operation of the instance
\* wrote has exactly one record for each sub-archive entry of the container,
\* with the stored size of the entry, and no record for anything else.
C36_ManifestExact ==
    pc = "Sealed" =>
        LET records == RecordsOf(file)
        IN  /\ \A n \in ContentNames :
                  /\ Cardinality({i \in 1..Len(records) : records[i][2] = n}) = 1
                  /\ int(FindRecord(records, n)[3]) = getmember(file.members, n).size
            /\ \A i \in 1..Len(records) : records[i][2] \in ContentNames


\* C38: the container that update_metadata has put in place verifies under
\* the flags of the instance, under which the old container verified.
C38_UpdatedVerifies ==
    (Updated /\ pc = "Sealed") =>
        /\ _verify_binpkg(update.container_old, request_signature,
                          verify_signature, FALSE, libs).exc = "ok"
        /\ _verify_binpkg(file, request_signature, verify_signature, FALSE,
                          libs).exc = "ok"


\* the last call read the digests or the signature output of the helper
DigestReads == {"_record_checksum", "hexdigest", "_add_signature"}

DigestRead == job.call \in DigestReads /\ job.waiting = "none"

\* C34: on every build and verify path the digests and the signature output
\* of a checksum_helper are read only after its finish() returned (and its
\* gpg program, if any, exited), and for a writer with a compressor only
\* after the reader thread returned, having delivered the compressor's output.
C34_ReadAfterFinish ==
    (job.op \in Operations /\ DigestRead) =>
        /\ helper.entry # "" /\ helper.returned
        /\ helper.p # 0 => (helper.finished /\ Exited(helper.p))
        /\ (stream.kind = "writer" /\ stream.t # 0) =>
              /\ threads[stream.t].state = "returned"
              /\ Exited(stream.p)

\* compress recorded the digests of the image, which went through a
\* compressor and a signing gpg program
C34_Witness ==
    /\ job.op = "compress" /\ job.call = "_record_checksum"
    /\ job.waiting = "none" /\ job.raised = "none"
    /\ helper.entry = "image" /\ helper.p # 0 /\ helper.returned
    /\ stream.kind = "writer" /\ stream.entry = "image" /\ stream.t # 0
    /\ threads[stream.t].state = "returned"

\* the blocks of the entry in the container: what follows its header, and
\* of that what is not padding
Payload == SelectSeq(Tail(pipe.fileobj), LAMBDA b : b.k # "pad")

\* what tarfile reads of the entry: the blocks after the header that lie
\* within the size written in the header
RECURSIVE Within(_, _)
Within(blocks, size) ==
    IF blocks = <<>> \/ size <= 0 THEN <<>>
    ELSE IF Head(blocks).n > size THEN << [Head(blocks) EXCEPT !.n = size] >>
    ELSE << Head(blocks) >> \o Within(Tail(blocks), size - Head(blocks).n)

EntryData == Within(Tail(pipe.fileobj), pipe.fileobj[1].i)

\* what was to be stored: the output of the compressor, which is the
\* compressed form of the written blocks, or the written blocks
Output ==
    IF pipe.cmd THEN ZAll(pipe.written) \o << Trailer >> ELSE pipe.written

WriterClosed == IsWriter /\ pipe.closed

\* C31: after a close without failure the size in the header at the begin
\* position is the number of payload bytes stored after the header (the
\* whole output of the compressor, if there is one), the payload is
\* followed by less than a block of zero padding up to a multiple of 512,
\* and the entry was appended to the members exactly once.
C31_HeaderPatched ==
    WriterClosed =>
        /\ pipe.fileobj[1] = Header(NBytes(Payload))
        /\ pipe.size = NBytes(Payload)
        /\ Payload = Output
        /\ pipe.cmd => pipe.emitted = Payload
        /\ \E pad \in 0..(BLOCKSIZE - 1) :
              Tail(pipe.fileobj)
                  = Payload \o (IF pad = 0 THEN <<>> ELSE << Padding(pad) >>)
        /\ (pipe.begin_position + NBytes(pipe.fileobj)) % BLOCKSIZE = 0
        /\ pipe.members = 1

\* two blocks went through the compressor; the entry is not a multiple of
\* 512 bytes long, was padded, and close() was called a second time
C31_Witness ==
    /\ WriterClosed /\ pipe.cmd /\ pipe.closes = 2
    /\ Len(pipe.written) = 2
    /\ pipe.size % BLOCKSIZE # 0
    /\ pipe.fileobj[Len(pipe.fileobj)].k = "pad"

RECURSIVE IsPrefixOf(_, _)
IsPrefixOf(s, t) ==
    IF s = <<>> THEN TRUE
    ELSE IF t = <<>> THEN FALSE
    ELSE Head(s) = Head(t) /\ IsPrefixOf(Tail(s), Tail(t))

\* C32: what the checksum helper was fed is, in content and order, what is
\* stored for the entry, at most the block being stored behind; after close
\* it is the whole stored entry as tarfile reads it back: the output of the
\* compressor if there is one, the written blocks otherwise.
C32_SinkIsStored ==
    IsWriter =>
        /\ IsPrefixOf(pipe.sink, Payload)
        /\ Len(Payload) - Len(pipe.sink) <= 1
        /\ pipe.closed => (pipe.sink = EntryData /\ pipe.sink = Output)

\* a compressed entry of two blocks was closed, and the helper was fed the
\* three blocks of compressor output, not the two written ones
C32_Witness ==
    /\ WriterClosed /\ pipe.cmd
    /\ Len(pipe.written) = 2 /\ Len(pipe.sink) = 3
    /\ pipe.sink # pipe.written
    /\ NBytes(pipe.sink) # NBytes(pipe.written)

\* the feeder thread, the decompressor, the caller cannot go on
FeederBlocked ==
    /\ pipe.thread = "running" /\ pipe.src # <<>>
    /\ pipe.proc = "running" /\ Len(pipe.stdin) = pipe.cap_in

DecompressorBlocked ==
    /\ pipe.proc = "running"
    /\ IF pipe.held # <<>> THEN Len(pipe.stdout) = pipe.cap_out
       ELSE pipe.stdin = <<>> /\ pipe.stdin_open

CallerBlocked ==
    \/ pipe.pc = "read" /\ pipe.stdout = <<>> /\ pipe.proc = "running"
    \/ pipe.pc = "join" /\ pipe.thread = "running"
    \/ pipe.pc = "wait" /\ pipe.proc = "running"

\* the caller waits, and neither the thread nor the program will ever let
\* it go on
Stuck ==
    /\ CallerBlocked
    /\ pipe.thread = "running" => FeederBlocked
    /\ pipe.proc = "running" => DecompressorBlocked

Draining == IsReader /\ pipe.mode = "drain"

ReaderDone == IsReader /\ pipe.pc = "done"

C40_CloseReturns == (IsReader /\ pipe.pc = "close") ~> ReaderDone

====
